---- MODULE Spec2Model ----
(***************************************************************************)
(* pydantic-argparse: a pydantic model is turned into an argparse parser   *)
(* (one argument per field, chosen by the field's category), argv is       *)
(* parsed into a namespace, the namespace is rebuilt into a dictionary and *)
(* the dictionary is validated into an instance of the model.              *)
(*                                                                         *)
(* Modelled generation of the sources: argparse/parser.py, actions.py,     *)
(* the parsers that return validators (pydantic_args/parsers, src/src),    *)
(* utils/pydantic.py, utils/types.py and utils/namespaces.py.              *)
(***************************************************************************)
EXTENDS Integers, Sequences, FiniteSets, TLC

(***************************************************************************)
(* Bounds.                                                                 *)
(***************************************************************************)
\* longest argv handed to parse_typed_args
MaxArgv == 3

(***************************************************************************)
(* Python values.  Every value is a record whose kind k says which Python  *)
(* type it has, so that the str "1" and the int 1 are different values.    *)
(***************************************************************************)
NoneV == [k |-> "none", v |-> "None"]
StrV(s) == [k |-> "str", v |-> s]
IntV(s) == [k |-> "int", v |-> s]
BytesV(s) == [k |-> "bytes", v |-> s]
BoolV(b) == [k |-> "bool", v |-> IF b THEN "True" ELSE "False"]
TrueV == BoolV(TRUE)
FalseV == BoolV(FALSE)
\* a member of an enum class, named by class and member name
MemberV(cls, name) == [k |-> "member", v |-> <<cls, name>>]
ListV(seq) == [k |-> "list", v |-> seq]
TupleV(seq) == [k |-> "tuple", v |-> seq]
DequeV(seq) == [k |-> "deque", v |-> seq]
SetV(set) == [k |-> "set", v |-> set]
FrozenSetV(set) == [k |-> "frozenset", v |-> set]
\* a dict, as a sequence of <<key, value>> pairs
DictV(pairs) == [k |-> "dict", v |-> pairs]

\* str(value) for the scalar values
PyStr(val) ==
    CASE val.k = "member" -> val.v[1] \o "." \o val.v[2]
      [] val.k \in {"none", "str", "int", "bool", "bytes"} -> val.v
      [] OTHER -> "<object>"

\* bool(value)
Truthy(val) ==
    CASE val.k = "none" -> FALSE
      [] val.k = "bool" -> val = TrueV
      [] val.k \in {"str", "bytes"} -> val.v # ""
      [] val.k = "int" -> val.v # "0"
      [] val.k \in {"list", "tuple", "deque", "dict"} -> Len(val.v) > 0
      [] val.k \in {"set", "frozenset"} -> val.v # {}
      [] OTHER -> TRUE

(***************************************************************************)
(* Field types.  A type is named by the origin of the field's outer type;  *)
(* Optional[X] has outer type X, the None alternative is the field's       *)
(* allow_none.                                                             *)
(***************************************************************************)
\* list[str], list[int], Tuple[str, ...], set[str], frozenset[str], deque[str]
ContainerTypes == {"list", "list_int", "tuple", "set", "frozenset", "deque"}
\* Literal["A"], Literal["A", 1], Literal["1", 1]
LiteralTypes == {"Literal_A", "Literal_A_1", "Literal_1_1"}
\* class EnumSingle(Enum): D = 4
\* class Enum3(Enum): A = 1; B = 2; C = 3
\* class EnumStr(Enum): A = "x"; B = "y"
\* class EnumMix(str, Enum): A = "x"
EnumTypes == {"EnumSingle", "Enum3", "EnumStr", "EnumMix"}
\* class EnumDict(dict, Enum): A = {}
OverlapEnumTypes == {"EnumDict"}
\* class Model(pydantic.BaseModel)
\* class ModelContains(pydantic.BaseModel), defining __contains__
\* class ModelMapping(pydantic.BaseModel, collections.abc.Mapping)
ModelTypes == {"Model", "ModelContains", "ModelMapping"}
\* class MyStr(str)
FieldTypes ==
    {"bool", "int", "str", "bytes", "dict", "MyStr"}
        \cup ContainerTypes \cup LiteralTypes \cup EnumTypes
        \cup OverlapEnumTypes \cup ModelTypes

\* typing.get_args(field.outer_type_) of a Literal
LiteralChoices(t) ==
    CASE t = "Literal_A" -> <<StrV("A")>>
      [] t = "Literal_A_1" -> <<StrV("A"), IntV("1")>>
      [] t = "Literal_1_1" -> <<StrV("1"), IntV("1")>>
      [] OTHER -> <<>>

\* the members of an enum class in definition order, as <<name, value>>
EnumMembers(t) ==
    CASE t = "EnumSingle" -> << <<"D", IntV("4")>> >>
      [] t = "Enum3" -> << <<"A", IntV("1")>>, <<"B", IntV("2")>>, <<"C", IntV("3")>> >>
      [] t = "EnumStr" -> << <<"A", StrV("x")>>, <<"B", StrV("y")>> >>
      [] t = "EnumMix" -> << <<"A", StrV("x")>> >>
      [] t = "EnumDict" -> << <<"A", DictV(<<>>)>> >>
      [] OTHER -> <<>>

\* isinstance(t, type): Literal is a special form, not a class
IsClass(t) == t \notin LiteralTypes /\ t # "Literal"

\* the classes (and abstract base classes) t is a subclass of
Bases(t) ==
    CASE t = "bool" -> {"bool", "int"}
      [] t = "int" -> {"int"}
      [] t = "str" -> {"str", "Container"}
      [] t = "MyStr" -> {"MyStr", "str", "Container"}
      [] t = "bytes" -> {"bytes", "Container"}
      [] t \in ContainerTypes -> {t, "Container"}
      [] t = "dict" -> {"dict", "Mapping", "Container"}
      [] t \in {"EnumSingle", "Enum3", "EnumStr"} -> {t, "Enum"}
      [] t = "EnumMix" -> {t, "Enum", "str", "Container"}
      [] t = "EnumDict" -> {t, "Enum", "dict", "Mapping", "Container"}
      [] t = "Model" -> {t, "BaseModel"}
      [] t = "ModelContains" -> {t, "BaseModel", "Container"}
      [] t = "ModelMapping" -> {t, "BaseModel", "Mapping", "Container"}
      [] OTHER -> {}

\* the classes the class object t is an instance of: an enum class is an
\* instance of EnumMeta, which defines __contains__
InstanceOf(t) ==
    IF t \in EnumTypes \cup OverlapEnumTypes THEN {"type", "EnumMeta", "Container"}
    ELSE IF IsClass(t) THEN {"type"} ELSE {}

\* get_origin(field.outer_type_) or field.outer_type_
FieldType(field) ==
    IF field.type \in LiteralTypes THEN "Literal" ELSE field.type

is_field_a(field, types) ==
    LET field_type == FieldType(field)
        is_valid == \A t \in types \cup {field.type} : IsClass(t)
    IN  \/ field_type \in types
        \/ is_valid /\ InstanceOf(field.type) \cap types # {}
        \/ is_valid /\ Bases(field.type) \cap types # {}

command_should_parse(field) == is_field_a(field, {"BaseModel"})
boolean_should_parse(field) == is_field_a(field, {"bool"})
\* src/pydantic_argparse/parsers/container.py: the predicate written with
\* issubclass and an identity test against str and bytes
container_should_parse_legacy(field) ==
    /\ IsClass(FieldType(field)) /\ "Container" \in Bases(field.type)
    /\ IsClass(FieldType(field)) /\ "Mapping" \notin Bases(field.type)
    /\ FieldType(field) \notin {"str", "bytes"}
\* src/pydantic_args/parsers/container.py: the predicate written with is_field_a
container_should_parse(field) ==
    /\ is_field_a(field, {"Container"})
    /\ ~is_field_a(field, {"Mapping", "Enum", "str", "bytes"})
mapping_should_parse(field) == is_field_a(field, {"Mapping"})
literal_should_parse(field) == is_field_a(field, {"Literal"})
enum_should_parse(field) == is_field_a(field, {"Enum"})

\* the two parsers packages of the repository, which differ in container.py
Packages == {"pydantic_args", "pydantic_argparse"}
container_should_parse_in(package, field) ==
    IF package = "pydantic_argparse" THEN container_should_parse_legacy(field)
    ELSE container_should_parse(field)

\* the branch of _add_field taken for the field
Categories ==
    <<"Command", "Boolean", "Container", "Mapping", "Literal", "Enum", "Standard">>
add_field_enum_first(package, field) ==
    IF boolean_should_parse(field) THEN "Boolean"
    ELSE IF enum_should_parse(field) THEN "Enum"
    ELSE IF container_should_parse_in(package, field) THEN "Container"
    ELSE IF mapping_should_parse(field) THEN "Mapping"
    ELSE IF literal_should_parse(field) THEN "Literal"
    ELSE IF command_should_parse(field) THEN "Command"
    ELSE "Standard"
_add_field(package, field) ==
    IF command_should_parse(field) THEN "Command"
    ELSE IF boolean_should_parse(field) THEN "Boolean"
    ELSE IF container_should_parse_in(package, field) THEN "Container"
    ELSE IF mapping_should_parse(field) THEN "Mapping"
    ELSE IF literal_should_parse(field) THEN "Literal"
    ELSE IF enum_should_parse(field) THEN "Enum"
    ELSE "Standard"
add_field(field) == _add_field("pydantic_args", field)

(***************************************************************************)
(* Fields of the model: pydantic.fields.ModelField.                        *)
(* A required field has default None (get_default() returns None); a field *)
(* whose default is None allows None.                                      *)
(***************************************************************************)
Field(type, required, default, allow_none) ==
    [name |-> "test", alias |-> "test", type |-> type, required |-> required,
     default |-> default, allow_none |-> allow_none]

\* the non-null defaults the model declares for a field of the type
DefaultsOf(t) ==
    CASE t = "bool" -> {TrueV, FalseV}
      [] t = "int" -> {IntV("2")}
      [] t = "str" -> {StrV("w")}
      [] t = "bytes" -> {BytesV("w")}
      [] t = "list" -> {ListV(<<StrV("d"), StrV("e")>>)}
      [] t = "list_int" -> {ListV(<<IntV("2")>>)}
      [] t = "tuple" -> {TupleV(<<StrV("d"), StrV("e")>>)}
      [] t = "set" -> {SetV({StrV("d")})}
      [] t = "frozenset" -> {FrozenSetV({StrV("d")})}
      [] t = "deque" -> {DequeV(<<StrV("d")>>)}
      [] t = "dict" -> {DictV(<< <<StrV("b"), IntV("3")>> >>)}
      [] t = "Literal_A" -> {StrV("A")}
      [] t = "Literal_A_1" -> {StrV("A")}
      [] t = "Literal_1_1" -> {IntV("1")}
      [] t \in EnumTypes \cup OverlapEnumTypes ->
            {MemberV(t, EnumMembers(t)[Len(EnumMembers(t))][1])}
      [] OTHER -> {}

FieldsOf(t) ==
    {Field(t, TRUE, NoneV, an) : an \in BOOLEAN}
        \cup {Field(t, FALSE, NoneV, TRUE)}
        \cup {Field(t, FALSE, d, an) : d \in DefaultsOf(t), an \in BOOLEAN}

(***************************************************************************)
(* utils.arguments.name: '--' or '--no-', then the alias with every '_'    *)
(* replaced by '-'.                                                        *)
(***************************************************************************)
\* alias.replace('_', '-') for the aliases of the model
RECURSIVE ReplaceUnderscores(_)
ReplaceUnderscores(alias) ==
    IF alias = "" THEN ""
    ELSE (IF SubSeq(alias, 1, 1) = "_" THEN "-" ELSE SubSeq(alias, 1, 1))
            \o ReplaceUnderscores(Tail(alias))

name_never_inverted(field, invert) == "--" \o ReplaceUnderscores(field.alias)
name(field, invert) ==
    LET prefix == IF invert THEN "--no-" ELSE "--"
    IN  prefix \o ReplaceUnderscores(field.alias)

\* field.field_info.extra.get("aliases", [])
Aliases(field) == IF "aliases" \in DOMAIN field THEN field.aliases ELSE <<>>

\* utils.arguments.names: the custom aliases as they are, then the long flag
names_long_first(field, invert) ==
    LET flags == Aliases(field)
        prefix == IF invert THEN "--no-" ELSE "--"
    IN  <<prefix \o ReplaceUnderscores(field.alias)>> \o flags
names(field, invert) ==
    LET flags == Aliases(field)
        prefix == IF invert THEN "--no-" ELSE "--"
    IN  Append(flags, prefix \o ReplaceUnderscores(field.alias))

(***************************************************************************)
(* The argparse actions a parser holds.                                    *)
(***************************************************************************)
\* argparse.SUPPRESS
SUPPRESS == [k |-> "SUPPRESS", v |-> "==SUPPRESS=="]

\* group titles
COMMANDS == "commands"
REQUIRED == "required arguments"
OPTIONAL == "optional arguments"
HELP == "help"
\* exit codes
EXIT_ERROR == 2
EXIT_OK == 0

\* argument_default handed to argparse.ArgumentParser.__init__
argument_default_none == NoneV
argument_default == SUPPRESS

\* BooleanOptionalAction.__init__: every '--x' also gets '--no-x'
BooleanOptionStrings_flag_only(flag, field) == <<flag>>
BooleanOptionStrings(flag, field) ==
    <<flag, "--no-" \o ReplaceUnderscores(field.alias)>>

\* argparse add_argument: the default of an action is the one of its
\* constructor unless the parser has an argument_default
ActionDefault(kind) ==
    IF argument_default # NoneV THEN argument_default
    ELSE CASE kind = "store_true" -> FalseV
           [] kind = "store_false" -> TrueV
           [] OTHER -> NoneV

\* field.field_info.description: None, written "", unless the field has one
FieldDescription(field) ==
    IF "description" \in DOMAIN field THEN field.description ELSE ""

\* utils.arguments.description: the description of the field, then
\* '(default: ...)' when the field is not required, joined by one space;
\* filter(None, ...) drops a part that is None or empty
description_default_always(field) ==
    LET default == "(default: " \o PyStr(field.default) \o ")"
        parts == SelectSeq(<<FieldDescription(field), default>>, LAMBDA p : p # "")
    IN  IF Len(parts) = 0 THEN ""
        ELSE IF Len(parts) = 1 THEN parts[1]
        ELSE parts[1] \o " " \o parts[2]
description(field) ==
    LET default == IF ~field.required
                   THEN "(default: " \o PyStr(field.default) \o ")" ELSE ""
        parts == SelectSeq(<<FieldDescription(field), default>>, LAMBDA p : p # "")
    IN  IF Len(parts) = 0 THEN ""
        ELSE IF Len(parts) = 1 THEN parts[1]
        ELSE parts[1] \o " " \o parts[2]

\* ArgumentParser.add_argument: 'required' is popped and only chooses the
\* group, argparse never sees it
add_argument_optional_group(flag, kind, nargs, const, field, required) ==
    [option_strings |->
        IF kind = "boolean_optional" THEN BooleanOptionStrings(flag, field)
        ELSE <<flag>>,
     kind |-> kind, nargs |-> nargs, const |-> const, dest |-> field.alias,
     default |-> ActionDefault(kind), required |-> FALSE, group |-> OPTIONAL,
     help |-> description(field)]
add_argument(flag, kind, nargs, const, field, required) ==
    [option_strings |->
        IF kind = "boolean_optional" THEN BooleanOptionStrings(flag, field)
        ELSE <<flag>>,
     kind |-> kind, nargs |-> nargs, const |-> const, dest |-> field.alias,
     default |-> ActionDefault(kind), required |-> FALSE,
     group |-> IF required THEN REQUIRED ELSE OPTIONAL,
     help |-> description(field)]

_add_help_flag ==
    [option_strings |-> <<"-h", "--help">>, kind |-> "help", nargs |-> "0",
     const |-> NoneV, dest |-> "==SUPPRESS==", default |-> SUPPRESS,
     required |-> FALSE, group |-> HELP,
     help |-> "show this help message and exit"]
_add_version_flag ==
    [option_strings |-> <<"-v", "--version">>, kind |-> "version", nargs |-> "0",
     const |-> NoneV, dest |-> "==SUPPRESS==", default |-> SUPPRESS,
     required |-> FALSE, group |-> HELP,
     help |-> "show program's version number and exit"]

(***************************************************************************)
(* parsers.<category>.parse_field: the argument registered for a field.    *)
(***************************************************************************)
boolean_is_inverted_by_presence(field) == ~field.required /\ field.default # NoneV
boolean_is_inverted(field) == ~field.required /\ Truthy(field.default)

boolean_parse_field(field) ==
    LET is_inverted == boolean_is_inverted(field)
        action == IF field.required THEN "boolean_optional"
                  ELSE IF is_inverted THEN "store_false"
                  ELSE "store_true"
    IN  add_argument(name(field, is_inverted), action, "0", NoneV, field,
                     field.required)

container_parse_field_one(field) ==
    add_argument(name(field, FALSE), "store", "None", NoneV, field, field.required)
container_parse_field(field) ==
    add_argument(name(field, FALSE), "store", "+", NoneV, field, field.required)

mapping_parse_field(field) ==
    add_argument(name(field, FALSE), "store", "None", NoneV, field, field.required)

\* len(choices) == 1 and not required
literal_is_flag(field) ==
    Len(LiteralChoices(field.type)) = 1 /\ ~field.required
literal_is_inverted_any_default(field) == literal_is_flag(field) /\ field.allow_none
literal_is_inverted(field) ==
    literal_is_flag(field) /\ field.default # NoneV /\ field.allow_none

literal_parse_field(field) ==
    LET choices == LiteralChoices(field.type)
        is_flag == literal_is_flag(field)
        is_inverted == literal_is_inverted(field)
    IN  IF is_flag
        THEN add_argument(name(field, is_inverted), "store_const", "0",
                          IF is_inverted THEN NoneV ELSE choices[1],
                          field, field.required)
        ELSE add_argument(name(field, is_inverted), "store", "None", NoneV,
                          field, field.required)

enum_is_flag(field) ==
    Len(EnumMembers(field.type)) = 1 /\ ~field.required
enum_is_inverted_any_default(field) == enum_is_flag(field) /\ field.allow_none
enum_is_inverted(field) ==
    enum_is_flag(field) /\ field.default # NoneV /\ field.allow_none

enum_parse_field(field) ==
    LET enum_type == EnumMembers(field.type)
        is_flag == enum_is_flag(field)
        is_inverted == enum_is_inverted(field)
    IN  IF is_flag
        THEN add_argument(name(field, is_inverted), "store_const", "0",
                          IF is_inverted THEN NoneV
                          ELSE MemberV(field.type, enum_type[1][1]),
                          field, field.required)
        ELSE add_argument(name(field, is_inverted), "store", "None", NoneV,
                          field, field.required)

standard_parse_field(field) ==
    add_argument(name(field, FALSE), "store", "None", NoneV, field, field.required)

\* ArgumentParser._add_field: the argument of a field that is no command
FieldAction(field) ==
    LET category == add_field(field)
    IN  CASE category = "Boolean" -> boolean_parse_field(field)
          [] category = "Container" -> container_parse_field(field)
          [] category = "Mapping" -> mapping_parse_field(field)
          [] category = "Literal" -> literal_parse_field(field)
          [] category = "Enum" -> enum_parse_field(field)
          [] OTHER -> standard_parse_field(field)

(***************************************************************************)
(* Casters and validators (utils.pydantic.as_validator).                   *)
(***************************************************************************)
Raised == [raised |-> TRUE, val |-> NoneV]
Returned(val) == [raised |-> FALSE, val |-> val]

\* ast.literal_eval on the tokens of the model: a dict display, an integer
\* literal, and names, which are no literals
literal_eval(s) ==
    CASE s = "{'a': 2}" -> Returned(DictV(<< <<StrV("a"), IntV("2")>> >>))
      [] s = "1" -> Returned(IntV("1"))
      [] s = "None" -> Returned(NoneV)
      [] OTHER -> Raised
\* the exception of a failing ast.literal_eval: text that does not parse is a
\* SyntaxError, an expression that is no literal a ValueError
literal_eval_exception(s) ==
    IF s \in {"", "{"} THEN "SyntaxError" ELSE "ValueError"

RECURSIVE LastWithStr(_, _, _)
\* {str(choice): choice for choice in choices}[s]: a later choice replaces an
\* earlier one with the same str()
LastWithStr(choices, s, i) ==
    IF i = 0 THEN Raised
    ELSE IF PyStr(choices[i]) = s THEN Returned(choices[i])
    ELSE LastWithStr(choices, s, i - 1)

literal_caster(field, s) ==
    LastWithStr(LiteralChoices(field.type), s, Len(LiteralChoices(field.type)))

\* enum_type[s]: lookup of a member by name
enum_caster_by_value(field, s) ==
    LET enum_type == EnumMembers(field.type)
        hits == {i \in 1..Len(enum_type) : enum_type[i][2] = StrV(s)}
    IN  IF hits = {} THEN Raised
        ELSE Returned(MemberV(field.type, enum_type[CHOOSE i \in hits : TRUE][1]))
enum_caster(field, s) ==
    LET enum_type == EnumMembers(field.type)
        hits == {i \in 1..Len(enum_type) : enum_type[i][1] = s}
    IN  IF hits = {} THEN Raised
        ELSE Returned(MemberV(field.type, enum_type[CHOOSE i \in hits : TRUE][1]))

\* the caster parse_field hands to as_validator
Caster(category, field, s) ==
    CASE category = "Mapping" -> literal_eval(s)
      [] category = "Literal" -> literal_caster(field, s)
      [] category = "Enum" -> enum_caster(field, s)
      [] OTHER -> Returned(StrV(s))

\* as_validator.__validator
as_validator_keep_empty(category, field, value) ==
    IF value.k # "str" THEN value
    ELSE LET r == Caster(category, field, value.v)
         IN  IF r.raised THEN value ELSE r.val
as_validator(category, field, value) ==
    IF value.k # "str" THEN value
    ELSE IF value.v = "" THEN NoneV
    ELSE LET r == Caster(category, field, value.v)
         IN  IF r.raised THEN value ELSE r.val

(***************************************************************************)
(* pydantic: validation of one value against the type of a field.          *)
(***************************************************************************)
Invalid == [ok |-> FALSE, val |-> NoneV]
Valid(val) == [ok |-> TRUE, val |-> val]

\* the tokens int() accepts
IntTokens == {"1", "2", "3", "4"}
Range(seq) == {seq[i] : i \in 1..Len(seq)}

ToInt(val) ==
    IF val.k = "int" THEN Valid(val)
    ELSE IF val.k = "str" /\ val.v \in IntTokens THEN Valid(IntV(val.v))
    ELSE Invalid

ToStr(val) == IF val.k = "str" THEN Valid(val) ELSE Invalid

\* the element type of a container type
ElemValidate(t, val) == IF t = "list_int" THEN ToInt(val) ELSE ToStr(val)

TypeValidate(field, val) ==
    LET t == field.type IN
    CASE t = "int" -> ToInt(val)
      [] t = "str" -> ToStr(val)
      [] t = "bytes" ->
            IF val.k = "bytes" THEN Valid(val)
            ELSE IF val.k = "str" THEN Valid(BytesV(val.v)) ELSE Invalid
      [] t = "bool" -> IF val.k = "bool" THEN Valid(val) ELSE Invalid
      [] t \in ContainerTypes ->
            IF val.k # "list" THEN Invalid
            ELSE LET elems == [i \in 1..Len(val.v) |-> ElemValidate(t, val.v[i])]
                     vals == [i \in 1..Len(val.v) |-> elems[i].val]
                 IN  IF \E i \in 1..Len(val.v) : ~elems[i].ok THEN Invalid
                     ELSE IF t = "tuple" THEN Valid(TupleV(vals))
                     ELSE IF t = "set" THEN Valid(SetV(Range(vals)))
                     ELSE IF t = "frozenset" THEN Valid(FrozenSetV(Range(vals)))
                     ELSE IF t = "deque" THEN Valid(DequeV(vals))
                     ELSE Valid(ListV(vals))
      [] t = "dict" ->
            IF /\ val.k = "dict"
               /\ \A i \in 1..Len(val.v) :
                    val.v[i][1].k = "str" /\ ToInt(val.v[i][2]).ok
            THEN Valid(val) ELSE Invalid
      [] t \in LiteralTypes ->
            IF val \in Range(LiteralChoices(t)) THEN Valid(val) ELSE Invalid
      [] t \in EnumTypes ->
            \* enum_member_validator: field.type_(v), lookup by value
            LET enum_type == EnumMembers(t)
                hits == {i \in 1..Len(enum_type) : enum_type[i][2] = val}
            IN  IF val.k = "member" /\ val.v[1] = t THEN Valid(val)
                ELSE IF hits = {} THEN Invalid
                ELSE Valid(MemberV(t, enum_type[CHOOSE i \in hits : TRUE][1]))
      [] OTHER -> Invalid

\* ModelField.validate: the pre-validator, then None, then the type
FieldValidate(field, value) ==
    LET v == as_validator(add_field(field), field, value)
    IN  IF v = NoneV
        THEN IF field.allow_none THEN Valid(NoneV) ELSE Invalid
        ELSE TypeValidate(field, v)

\* model.parse_obj(arguments) for the model with the one field: a missing
\* key is an error for a required field and the default otherwise
parse_obj(field, arguments) ==
    IF field.alias \notin DOMAIN arguments
    THEN IF field.required THEN Invalid ELSE Valid(field.default)
    ELSE FieldValidate(field, arguments[field.alias])

(***************************************************************************)
(* argparse: parse_known_args over the optionals of one parser.            *)
(***************************************************************************)
\* the argument strings that start with '-'
OptionLike ==
    {"--test", "--no-test", "--bogus", "-h", "--help", "-v", "--version",
     "--x", "--no-x", "--z", "--a", "--b"}
\* the option strings that start with '--no-'
NoPrefixed == {"--no-test", "--no-x"}

EmptyNamespace == [key \in {} |-> NoneV]

\* _parse_optional: the action whose option strings hold the argument, 0 if none
ActionFor(actions, arg) ==
    LET hits == {i \in 1..Len(actions) : arg \in Range(actions[i].option_strings)}
    IN  IF hits = {} THEN 0 ELSE CHOOSE i \in hits : TRUE

RECURSIVE RunLength(_, _)
\* the number of argument strings from position i on that are no options
RunLength(argv, i) ==
    IF i > Len(argv) \/ argv[i] \in OptionLike THEN 0
    ELSE 1 + RunLength(argv, i + 1)

Strs(argv, from, n) == [j \in 1..n |-> StrV(argv[from + j - 1])]

\* the value an action stores in the namespace
ActionValue(act, option_string, argv, i, n) ==
    CASE act.kind = "store" /\ act.nargs = "None" -> StrV(argv[i + 1])
      [] act.kind = "store" /\ act.nargs = "+" -> ListV(Strs(argv, i + 1, n))
      [] act.kind = "store_const" -> act.const
      [] act.kind = "store_true" -> TrueV
      [] act.kind = "store_false" -> FalseV
      [] act.kind = "boolean_optional" -> BoolV(option_string \notin NoPrefixed)
      [] OTHER -> NoneV

Parsed(namespace, extras) ==
    [status |-> "ok", namespace |-> namespace, extras |-> extras]
ArgumentError(namespace, extras) ==
    [status |-> "error", namespace |-> namespace, extras |-> extras]
HelpExit(namespace, extras) ==
    [status |-> "exit", namespace |-> namespace, extras |-> extras]

RECURSIVE _parse_known_args(_, _, _, _, _)
_parse_known_args(actions, argv, i, namespace, extras) ==
    IF i > Len(argv) THEN Parsed(namespace, extras)
    ELSE
      LET arg == argv[i]
          a == ActionFor(actions, arg)
          n == RunLength(argv, i + 1)
      IN  IF arg \notin OptionLike \/ a = 0
          THEN \* no positional and no optional takes it
               _parse_known_args(actions, argv, i + 1, namespace, Append(extras, arg))
          ELSE
            LET act == actions[a]
                taken == CASE act.nargs = "0" -> 0
                           [] act.nargs = "None" -> 1
                           [] OTHER -> n
            IN  IF act.kind \in {"help", "version"}
                THEN HelpExit(namespace, extras)
                ELSE IF act.nargs # "0" /\ n = 0
                THEN ArgumentError(namespace, extras)
                ELSE _parse_known_args(actions, argv, i + 1 + taken,
                        (act.dest :> ActionValue(act, arg, argv, i, n)) @@ namespace,
                        extras)

\* defaults of the actions that are not suppressed
InitialNamespace(actions) ==
    LET dests == {actions[i].dest : i \in {j \in 1..Len(actions) :
                                           actions[j].default # SUPPRESS}}
    IN  [d \in dests |->
            actions[CHOOSE i \in 1..Len(actions) :
                        actions[i].dest = d /\ actions[i].default # SUPPRESS].default]

parse_known_args(parser, argv) ==
    _parse_known_args(parser.actions, argv, 1, InitialNamespace(parser.actions), <<>>)

(***************************************************************************)
(* utils.namespaces.to_dict                                                *)
(***************************************************************************)
RECURSIVE to_dict(_)
to_dict_shallow(namespace) ==
    [key \in DOMAIN namespace |->
        IF namespace[key].k = "namespace"
        THEN [k |-> "dict_of", v |-> namespace[key].v]
        ELSE namespace[key]]
to_dict(namespace) ==
    [key \in DOMAIN namespace |->
        IF namespace[key].k = "namespace"
        THEN [k |-> "dict_of", v |-> to_dict(namespace[key].v)]
        ELSE namespace[key]]

(***************************************************************************)
(* ArgumentParser                                                          *)
(***************************************************************************)
\* ArgumentParser.__init__
__init__(field, version, add_help, exit_on_error) ==
    [model |-> field, version |-> version, add_help |-> add_help,
     exit_on_error |-> exit_on_error,
     action_groups |-> <<"positional arguments", "options", REQUIRED, OPTIONAL, HELP>>,
     actions |->
        (IF add_help THEN <<_add_help_flag>> ELSE <<>>)
            \o (IF Truthy(version) THEN <<_add_version_flag>> ELSE <<>>)
            \o <<FieldAction(field)>>]

\* the ways a call of parse_typed_args ends
NoArguments == [key \in {} |-> NoneV]
Return(model, arguments) ==
    [kind |-> "return", code |-> EXIT_OK, model |-> model, arguments |-> arguments,
     errors |-> 0, usage |-> 0, validated |-> TRUE]
Exit(code, arguments, errors, validated) ==
    [kind |-> "exit", code |-> code, model |-> NoneV, arguments |-> arguments,
     errors |-> errors, usage |-> errors, validated |-> validated]
Raise(arguments, errors, validated) ==
    [kind |-> "raise", code |-> EXIT_OK, model |-> NoneV, arguments |-> arguments,
     errors |-> errors, usage |-> errors, validated |-> validated]

\* ArgumentParser.error: usage, then exit with EXIT_ERROR or raise
error_always_raises(parser, arguments, validated) == Raise(arguments, 1, validated)
error(parser, arguments, validated) ==
    IF parser.exit_on_error THEN Exit(EXIT_ERROR, arguments, 1, validated)
    ELSE Raise(arguments, 1, validated)

\* ArgumentParser.parse_typed_args
parse_typed_args_swallow(parser, argv) ==
    LET r == parse_known_args(parser, argv)
        arguments == to_dict(r.namespace)
        m == parse_obj(parser.model, arguments)
    IN  CASE r.status = "exit" -> Exit(EXIT_OK, NoArguments, 0, FALSE)
          [] r.status = "error" ->
                IF parser.exit_on_error THEN error(parser, NoArguments, FALSE)
                ELSE Raise(NoArguments, 0, FALSE)
          [] r.status = "ok" /\ r.extras # <<>> -> error(parser, NoArguments, FALSE)
          [] OTHER ->
                IF m.ok THEN Return(m.val, arguments)
                ELSE Return(parser.model.default, arguments)
parse_typed_args(parser, argv) ==
    LET r == parse_known_args(parser, argv)
        arguments == to_dict(r.namespace)
        m == parse_obj(parser.model, arguments)
    IN  CASE r.status = "exit" -> Exit(EXIT_OK, NoArguments, 0, FALSE)
          [] r.status = "error" ->
                \* parse_known_args: error() if exit_on_error, else the
                \* ArgumentError goes to the caller as it is
                IF parser.exit_on_error THEN error(parser, NoArguments, FALSE)
                ELSE Raise(NoArguments, 0, FALSE)
          [] r.status = "ok" /\ r.extras # <<>> ->
                \* parse_args: unrecognized arguments
                error(parser, NoArguments, FALSE)
          [] OTHER ->
                IF m.ok THEN Return(m.val, arguments)
                ELSE error(parser, arguments, TRUE)

(***************************************************************************)
(* The state machine: a parser is constructed for a model and argv is      *)
(* parsed with it.                                                         *)
(***************************************************************************)
\* pc: the step the program is at; parser: the constructed ArgumentParser;
\* category: the results of the calls of _add_field, in order; argv: the
\* arguments of the call of parse_typed_args; outcome: how the call ended
VARIABLES pc, parser, category, argv, outcome
vars == <<pc, parser, category, argv, outcome>>

\* the types of the fields that become arguments of one parser
ArgumentTypes ==
    {"bool", "int", "str", "bytes", "dict"} \cup ContainerTypes
        \cup LiteralTypes \cup {"EnumSingle", "Enum3", "EnumStr"}
Models == UNION {FieldsOf(t) : t \in ArgumentTypes}

\* the argument strings of the command lines
Tokens(field) ==
    {"--test", "--no-test", "--bogus", "A", "1", "x", ""}
        \cup (IF field.type = "dict" THEN {"{'a': 2}"} ELSE {})
        \cup (IF field.type = "EnumSingle" THEN {"D"} ELSE {})
Argvs(field) == UNION {[1..n -> Tokens(field)] : n \in 0..MaxArgv}

NoParser == [model |-> NoneV]
NoOutcome == [kind |-> "none"]

Init ==
    /\ pc = "new"
    /\ parser = NoParser
    /\ category = <<>>
    /\ argv = <<>>
    /\ outcome = NoOutcome

Construct ==
    /\ pc = "new"
    /\ \E field \in Models, exit_on_error \in BOOLEAN :
          /\ parser' = __init__(field, NoneV, TRUE, exit_on_error)
          /\ category' = <<add_field(field)>>
    /\ pc' = "built"
    /\ UNCHANGED <<argv, outcome>>

ParseTypedArgs ==
    /\ pc = "built"
    /\ \E args \in Argvs(parser.model) :
          /\ argv' = args
          /\ outcome' = parse_typed_args(parser, args)
    /\ pc' = "parsed"
    /\ UNCHANGED <<parser, category>>

Next == Construct \/ ParseTypedArgs

Spec == Init /\ [][Next]_vars

(***************************************************************************)
(* Classification on its own: _add_field applied, more than once, to a     *)
(* field of any type, the nested models and the types that satisfy more    *)
(* than one predicate included.                                            *)
(***************************************************************************)
\* calls of _add_field on the same field
MaxClassify == 2

AllFields == UNION {FieldsOf(t) : t \in FieldTypes}

InitClassify ==
    /\ pc = "field"
    /\ parser \in {[model |-> field, parsers |-> package] :
                        field \in AllFields, package \in Packages}
    /\ category = <<>>
    /\ argv = <<>>
    /\ outcome = NoOutcome

AddField ==
    /\ pc = "field"
    /\ Len(category) < MaxClassify
    /\ category' = Append(category, _add_field(parser.parsers, parser.model))
    /\ UNCHANGED <<pc, parser, argv, outcome>>

NextClassify == AddField

SpecClassify == InitClassify /\ [][NextClassify]_vars

(***************************************************************************)
(* Properties.                                                             *)
(***************************************************************************)
\* the option strings of the argument registered for the model's field
FieldFlags == {"--test", "--no-test"}
HasFlag(args) == \E i \in 1..Len(args) : args[i] \in FieldFlags

\* the argument parse of the last call failed: an argument error, or
\* unrecognized arguments
ArgparseFailed ==
    LET r == parse_known_args(parser, argv)
    IN  r.status = "error" \/ (r.status = "ok" /\ r.extras # <<>>)
\* the argument parse of the last call succeeded and validation failed
ValidationFailed ==
    LET r == parse_known_args(parser, argv)
    IN  /\ r.status = "ok" /\ r.extras = <<>>
        /\ ~parse_obj(parser.model, to_dict(r.namespace)).ok

\* C1: when the argument parse or the validation of the model fails,
\* parse_typed_args returns no model: the process exits with code 2 if
\* exit_on_error, and an ArgumentError is raised to the caller otherwise.
C1_NoModelOnFailure ==
    (pc = "parsed" /\ (ArgparseFailed \/ ValidationFailed)) =>
        /\ outcome.kind # "return"
        /\ outcome.model = NoneV
        /\ parser.exit_on_error =>
              (outcome.kind = "exit" /\ outcome.code = EXIT_ERROR)
        /\ ~parser.exit_on_error => outcome.kind = "raise"

\* an invalid value for a required int, reported without exiting
C1_Witness ==
    /\ pc = "parsed"
    /\ parser.model.type = "int" /\ parser.model.required
    /\ ~parser.exit_on_error
    /\ argv = <<"--test", "x">>
    /\ ValidationFailed
    /\ outcome.kind = "raise"

\* C2: a successful parse of an argv without a flag of an optional field
\* returns a model holding exactly the declared default of the field.
C2_DefaultPreserved ==
    (/\ pc = "parsed"
     /\ ~parser.model.required
     /\ ~HasFlag(argv)
     /\ outcome.kind = "return") =>
        outcome.model = parser.model.default

\* an optional int with default 2 that also allows None, no flag given
C2_Witness ==
    /\ pc = "parsed"
    /\ parser.model.type = "int"
    /\ parser.model.default = IntV("2") /\ parser.model.allow_none
    /\ argv = <<>>
    /\ outcome.kind = "return" /\ outcome.model = IntV("2")

(***************************************************************************)
(* Round trip: the values a field admits and their command lines, as       *)
(* test_arguments writes them.                                             *)
(***************************************************************************)
\* sequences over a set, up to a length
SeqsUpTo(S, n) == UNION {[1..m -> S] : m \in 0..n}
\* the orders a set can be written in
Orders(S) == {q \in [1..Cardinality(S) -> S] : Range(q) = S}

\* the values of the type of a field, None apart
ValuesOf(t) ==
    CASE t = "bool" -> {TrueV, FalseV}
      [] t = "int" -> {IntV("1"), IntV("2")}
      [] t = "str" -> {StrV("A"), StrV("1"), StrV(""), StrV("--bogus"), StrV("w")}
      [] t = "bytes" -> {BytesV("A"), BytesV(""), BytesV("w")}
      [] t = "list" -> {ListV(q) : q \in SeqsUpTo({StrV("A"), StrV("")}, 2)}
                          \cup DefaultsOf(t)
      [] t = "list_int" -> {ListV(q) : q \in SeqsUpTo({IntV("1")}, 2)}
                          \cup DefaultsOf(t)
      [] t = "tuple" -> {TupleV(q) : q \in SeqsUpTo({StrV("A"), StrV("x")}, 2)}
                          \cup DefaultsOf(t)
      [] t = "deque" -> {DequeV(q) : q \in SeqsUpTo({StrV("A"), StrV("x")}, 2)}
                          \cup DefaultsOf(t)
      [] t = "set" -> {SetV(S) : S \in SUBSET {StrV("A"), StrV("x")}}
                          \cup DefaultsOf(t)
      [] t = "frozenset" -> {FrozenSetV(S) : S \in SUBSET {StrV("A"), StrV("x")}}
                          \cup DefaultsOf(t)
      [] t = "dict" -> {DictV(<< <<StrV("a"), IntV("2")>> >>)} \cup DefaultsOf(t)
      [] t \in LiteralTypes -> Range(LiteralChoices(t))
      [] t \in EnumTypes ->
            {MemberV(t, EnumMembers(t)[i][1]) : i \in 1..Len(EnumMembers(t))}
      [] OTHER -> {}

Admissible(field) ==
    ValuesOf(field.type) \cup (IF field.allow_none THEN {NoneV} ELSE {})

\* repr() of the dicts of the model
Repr(val) ==
    CASE val = DictV(<< <<StrV("a"), IntV("2")>> >>) -> "{'a': 2}"
      [] val = DictV(<< <<StrV("b"), IntV("3")>> >>) -> "{'b': 3}"
      [] OTHER -> "{}"

\* the argument strings of a value that is written after a flag
ValueTokens(field, val) ==
    CASE val.k \in {"list", "tuple", "deque"} ->
            {[i \in 1..Len(val.v) |-> PyStr(val.v[i])]}
      [] val.k \in {"set", "frozenset"} ->
            {[i \in 1..Len(q) |-> PyStr(q[i])] : q \in Orders(val.v)}
      [] val.k = "dict" -> {<<Repr(val)>>}
      [] val.k = "member" -> {<<val.v[2]>>}
      [] OTHER -> {<<PyStr(val)>>}

\* the argument takes no value: a boolean, or an optional literal or enum
\* with one choice
IsFlag(field) ==
    LET c == add_field(field)
    IN  \/ c = "Boolean"
        \/ c = "Literal" /\ literal_is_flag(field)
        \/ c = "Enum" /\ enum_is_flag(field)

\* the command lines that stand for the value val of the field
Renderings(field, val) ==
    LET c == add_field(field)
        flag == name(field, FALSE)
        no_flag == name(field, TRUE)
        omitted == IF ~field.required /\ val = field.default THEN {<<>>} ELSE {}
        act == FieldAction(field)
    IN  IF c = "Boolean" /\ field.required
        THEN IF val = TrueV THEN {<<flag>>}
             ELSE IF val = FalseV THEN {<<no_flag>>} ELSE {}
        ELSE IF IsFlag(field)
        THEN omitted \cup
             (IF val = ActionValue(act, act.option_strings[1], <<>>, 0, 0)
              THEN {<<act.option_strings[1]>>} ELSE {})
        ELSE omitted \cup
             (IF val = NoneV THEN {}
              ELSE {<<flag>> \o q : q \in ValueTokens(field, val)})

\* the rendering is one the command line can carry: no value that looks like
\* an option, no empty string as the whole value, no empty container, and no
\* other literal constant with the same str()
Plain(field, val, args) ==
    /\ \A i \in 2..Len(args) : args[i] \notin OptionLike
    /\ ~IsFlag(field) /\ args # <<>> => Len(args) >= 2
    /\ add_field(field) # "Container" /\ Len(args) = 2 => args[2] # ""
    /\ add_field(field) = "Literal" =>
          \A c \in Range(LiteralChoices(field.type)) : PyStr(c) = PyStr(val) => c = val

\* C3 as stated: for every category and every admissible value, parsing the
\* rendering of the value returns a model whose field equals the value.
C3_RoundTripEveryValue ==
    pc = "parsed" =>
        \A val \in Admissible(parser.model) :
            argv \in Renderings(parser.model, val) =>
                outcome.kind = "return" /\ outcome.model = val

\* C3 amended: the round trip holds for every admissible value whose
\* rendering is plain.
C3_RoundTripPlain ==
    pc = "parsed" =>
        \A val \in Admissible(parser.model) :
            (argv \in Renderings(parser.model, val)
                /\ Plain(parser.model, val, argv)) =>
                outcome.kind = "return" /\ outcome.model = val

\* list[int] from '--test 1 1': the tokens become the ints of the list
C3_Witness ==
    /\ pc = "parsed"
    /\ parser.model.type = "list_int" /\ parser.model.required
    /\ argv = <<"--test", "1", "1">>
    /\ argv \in Renderings(parser.model, ListV(<<IntV("1"), IntV("1")>>))
    /\ Plain(parser.model, ListV(<<IntV("1"), IntV("1")>>), argv)
    /\ outcome.kind = "return"
    /\ outcome.model = ListV(<<IntV("1"), IntV("1")>>)

(***************************************************************************)
(* Classification.                                                         *)
(***************************************************************************)
\* the positions in Categories whose predicate holds for the field
Matching(package, field) ==
    {i \in 1..6 :
        CASE i = 1 -> command_should_parse(field)
          [] i = 2 -> boolean_should_parse(field)
          [] i = 3 -> container_should_parse_in(package, field)
          [] i = 4 -> mapping_should_parse(field)
          [] i = 5 -> literal_should_parse(field)
          [] i = 6 -> enum_should_parse(field)}
First(S) == CHOOSE i \in S : \A j \in S : i <= j

\* C4: every call of the classifier on a field returns one category of the
\* fixed set; it is the first of Command, Boolean, Container, Mapping,
\* Literal, Enum whose predicate holds, Standard when none holds, and the
\* same on every call.
C4_FirstMatchWins ==
    pc = "field" =>
        LET m == Matching(parser.parsers, parser.model)
        IN  \A i \in 1..Len(category) :
                /\ category[i] \in Range(Categories)
                /\ m = {} => category[i] = "Standard"
                /\ m # {} => category[i] = Categories[First(m)]
                /\ \A j \in 1..Len(category) : category[j] = category[i]

\* class EnumDict(dict, Enum) matches Mapping and Enum; both calls say Mapping
C4_Witness ==
    /\ pc = "field"
    /\ parser.model.type = "EnumDict"
    /\ Matching(parser.parsers, parser.model) = {4, 6}
    /\ category = <<"Mapping", "Mapping">>

\* C5: a field whose type is str or bytes, a mapping type or an enum class
\* is never classified as Container, and a nested model is never classified
\* as Standard.
C5_NeverContainer ==
    pc = "field" =>
        \A i \in 1..Len(category) :
            /\ Bases(parser.model.type) \cap {"str", "bytes", "Mapping", "Enum"} # {}
                  => category[i] # "Container"
            /\ "BaseModel" \in Bases(parser.model.type) => category[i] # "Standard"

\* the same, for the predicate of src/pydantic_args/parsers/container.py only
C5_NeverContainerCurrent ==
    (pc = "field" /\ parser.parsers = "pydantic_args") => C5_NeverContainer

(***************************************************************************)
(* Boolean fields.                                                         *)
(***************************************************************************)
\* the arguments registered for the model's field
FieldActions == {i \in 1..Len(parser.actions) : parser.actions[i].dest = parser.model.alias}
TheFieldAction == parser.actions[CHOOSE i \in FieldActions : TRUE]
Contains(args, s) == \E i \in 1..Len(args) : args[i] = s
Built == pc \in {"built", "parsed"}

\* C6: an optional boolean field registers exactly one flag: '--no-test'
\* (presence gives False) for a truthy default, '--test' (presence gives
\* True) for a default of False or None; the other spelling is rejected, and
\* omission keeps the default.
C6_OptionalBooleanOneFlag ==
    (Built /\ parser.model.type = "bool" /\ ~parser.model.required) =>
        LET inverted == Truthy(parser.model.default)
            flag == IF inverted THEN "--no-test" ELSE "--test"
            other == IF inverted THEN "--test" ELSE "--no-test"
        IN  /\ Cardinality(FieldActions) = 1
            /\ TheFieldAction.option_strings = <<flag>>
            /\ TheFieldAction.kind = (IF inverted THEN "store_false" ELSE "store_true")
            /\ pc = "parsed" =>
                /\ argv = <<flag>> =>
                      /\ outcome.kind = "return"
                      /\ outcome.model = (IF inverted THEN FalseV ELSE TrueV)
                /\ Contains(argv, other) => outcome.kind # "return"
                /\ argv = <<>> =>
                      outcome.kind = "return" /\ outcome.model = parser.model.default

\* default True: '--no-test' gives False
C6_Witness ==
    /\ pc = "parsed"
    /\ parser.model.type = "bool" /\ ~parser.model.required
    /\ parser.model.default = TrueV
    /\ TheFieldAction.option_strings = <<"--no-test">>
    /\ argv = <<"--no-test">>
    /\ outcome.kind = "return" /\ outcome.model = FalseV

BothFlags == Contains(argv, "--test") /\ Contains(argv, "--no-test")
RequiredBoolean == Built /\ parser.model.type = "bool" /\ parser.model.required

\* C7 as stated: a required boolean field has exactly the flags '--test' and
\* '--no-test'; a command line with both produces no model, and so does a
\* command line with neither.
C7_RequiredBooleanExclusive ==
    RequiredBoolean =>
        /\ Cardinality(FieldActions) = 1
        /\ TheFieldAction.option_strings = <<"--test", "--no-test">>
        /\ pc = "parsed" =>
            /\ BothFlags => outcome.kind # "return"
            /\ ~HasFlag(argv) => outcome.kind # "return"

\* C7 amended: a required boolean field has exactly the flags '--test'
\* (True) and '--no-test' (False); on a command line made of these flags the
\* last one gives the value, also when both are there; any other option, or
\* a command line with neither flag, produces no model.
C7_RequiredBooleanLastWins ==
    RequiredBoolean =>
        /\ Cardinality(FieldActions) = 1
        /\ TheFieldAction.option_strings = <<"--test", "--no-test">>
        /\ TheFieldAction.kind = "boolean_optional"
        /\ pc = "parsed" =>
            /\ (argv # <<>> /\ \A i \in 1..Len(argv) : argv[i] \in FieldFlags) =>
                  /\ outcome.kind = "return"
                  /\ outcome.model =
                        (IF argv[Len(argv)] = "--test" THEN TrueV ELSE FalseV)
            /\ Contains(argv, "--bogus") => outcome.kind # "return"
            /\ ~HasFlag(argv) => outcome.kind # "return"

\* '--test --no-test' gives False
C7_Witness ==
    /\ RequiredBoolean /\ pc = "parsed"
    /\ argv = <<"--test", "--no-test">>
    /\ BothFlags
    /\ outcome.kind = "return" /\ outcome.model = FalseV

(***************************************************************************)
(* Literal and enum fields.                                                *)
(***************************************************************************)
\* the admissible values of a literal or enum type, in declaration order
Choices(t) ==
    IF t \in LiteralTypes THEN LiteralChoices(t)
    ELSE [i \in 1..Len(EnumMembers(t)) |-> MemberV(t, EnumMembers(t)[i][1])]
LiteralOrEnum == Built /\ parser.model.type \in LiteralTypes \cup EnumTypes
SingleChoiceFlag ==
    LiteralOrEnum /\ ~parser.model.required /\ Len(Choices(parser.model.type)) = 1

\* C8: an optional literal or enum field with one admissible value is a
\* constant flag without a value: '--no-test' setting None exactly when the
\* default is not None and the field allows None, else '--test' setting the
\* constant or member; without the flag the default stays.
C8_SingleChoiceFlag ==
    SingleChoiceFlag =>
        LET inverting == parser.model.default # NoneV /\ parser.model.allow_none
            flag == IF inverting THEN "--no-test" ELSE "--test"
            value == IF inverting THEN NoneV ELSE Choices(parser.model.type)[1]
        IN  /\ Cardinality(FieldActions) = 1
            /\ TheFieldAction.kind = "store_const"
            /\ TheFieldAction.nargs = "0"
            /\ TheFieldAction.option_strings = <<flag>>
            /\ TheFieldAction.const = value
            /\ pc = "parsed" =>
                /\ argv = <<flag>> =>
                      outcome.kind = "return" /\ outcome.model = value
                /\ argv = <<>> =>
                      outcome.kind = "return" /\ outcome.model = parser.model.default

\* Optional[Literal["A"]] = "A": '--no-test' gives None
C8_Witness ==
    /\ SingleChoiceFlag /\ pc = "parsed"
    /\ parser.model.type = "Literal_A"
    /\ parser.model.default = StrV("A") /\ parser.model.allow_none
    /\ argv = <<"--no-test">>
    /\ outcome.kind = "return" /\ outcome.model = NoneV

\* the literal or enum argument takes a value
ValueTaking == LiteralOrEnum /\ ~SingleChoiceFlag
\* the command-line spelling of a choice: str() of a constant, the name of a
\* member
Spelling(choice) == IF choice.k = "member" THEN choice.v[2] ELSE PyStr(choice)

\* C9: a required or multi-valued literal or enum field takes one value; a
\* token that spells a constant or member gives that constant or member in
\* the model, and a token that spells none gives no model.
C9_TokenYieldsChoice ==
    ValueTaking =>
        /\ Cardinality(FieldActions) = 1
        /\ TheFieldAction.option_strings = <<"--test">>
        /\ TheFieldAction.kind = "store" /\ TheFieldAction.nargs = "None"
        /\ (pc = "parsed" /\ Len(argv) = 2 /\ argv[1] = "--test"
                /\ argv[2] \notin OptionLike) =>
            LET choices == Range(Choices(parser.model.type))
            IN  /\ \A c \in choices :
                      Spelling(c) = argv[2] =>
                          outcome.kind = "return" /\ outcome.model = c
                /\ (\A c \in choices : Spelling(c) # argv[2]) =>
                      outcome.kind # "return"

\* what remains true of C9: with a non-empty token, a spelling shared by no
\* two constants gives its constant or member, and a token that is neither a
\* spelling nor the value of a member gives no model
C9_TokenYieldsChoiceOtherwise ==
    (ValueTaking /\ pc = "parsed" /\ Len(argv) = 2 /\ argv[1] = "--test"
            /\ argv[2] \notin OptionLike /\ argv[2] # "") =>
        LET choices == Range(Choices(parser.model.type))
            members == EnumMembers(parser.model.type)
        IN  /\ \A c \in choices :
                  (/\ Spelling(c) = argv[2]
                   /\ \A d \in choices : Spelling(d) = Spelling(c) => d = c) =>
                      outcome.kind = "return" /\ outcome.model = c
            /\ (/\ \A c \in choices : Spelling(c) # argv[2]
                /\ \A i \in 1..Len(members) : members[i][2] # StrV(argv[2])) =>
                      outcome.kind # "return"

(***************************************************************************)
(* Container fields.                                                       *)
(***************************************************************************)
ContainerField == Built /\ parser.model.type \in ContainerTypes
\* the list argparse stores for the tokens after the flag
Stored(args) == ListV([i \in 1..(Len(args) - 1) |-> StrV(args[i + 1])])

\* C10: a container field is one flag '--test' with nargs '+': the flag
\* alone is an error; the flag with n >= 1 tokens hands the list of these
\* tokens, in order and as strings, to the construction of the model; the
\* flag can be left out exactly when the field has a default.
C10_ContainerOneOrMore ==
    ContainerField =>
        /\ Cardinality(FieldActions) = 1
        /\ TheFieldAction.option_strings = <<"--test">>
        /\ TheFieldAction.kind = "store" /\ TheFieldAction.nargs = "+"
        /\ TheFieldAction.group = REQUIRED <=> parser.model.required
        /\ pc = "parsed" =>
            /\ argv = <<"--test">> => outcome.kind # "return"
            /\ (Len(argv) >= 2 /\ argv[1] = "--test"
                    /\ \A i \in 2..Len(argv) : argv[i] \notin OptionLike) =>
                  /\ outcome.validated
                  /\ outcome.arguments = [key \in {"test"} |-> Stored(argv)]
                  /\ as_validator("Container", parser.model, Stored(argv)) = Stored(argv)
            /\ argv = <<>> => (outcome.kind # "return" <=> parser.model.required)

\* set[str] from '--test A A': the list ["A", "A"] goes to pydantic, which
\* makes the set
C10_Witness ==
    /\ ContainerField /\ pc = "parsed"
    /\ parser.model.type = "set" /\ parser.model.required
    /\ argv = <<"--test", "A", "A">>
    /\ outcome.arguments = [key \in {"test"} |-> ListV(<<StrV("A"), StrV("A")>>)]
    /\ outcome.kind = "return" /\ outcome.model = SetV({StrV("A")})

(***************************************************************************)
(* The validator of a mapping field on its own, applied to one token.      *)
(***************************************************************************)
\* src/pydantic_argparse/parsers/mapping.py: parse_field.__arg_to_dictionary
arg_to_dictionary(value) ==
    IF ~Truthy(value) THEN Returned(NoneV)
    ELSE IF value.k # "str" THEN Returned(value)
    ELSE literal_eval(value.v)

\* the validator parse_field returns for a mapping field, in either package
mapping_validator(package, field, value) ==
    IF package = "pydantic_argparse" THEN arg_to_dictionary(value)
    ELSE Returned(as_validator("Mapping", field, value))

MappingTokens == {"{'a': 2}", "1", "None", "x", "A", "{", "", "--test"}

InitCaster ==
    /\ pc = "token"
    /\ parser \in {[model |-> field, parsers |-> package] :
                        field \in FieldsOf("dict"), package \in Packages}
    /\ category = <<"Mapping">>
    /\ argv \in {<<token>> : token \in MappingTokens}
    /\ outcome = NoOutcome

\* pydantic calls the validator on the value argparse stored
Validate ==
    /\ pc = "token"
    /\ pc' = "cast"
    /\ LET r == mapping_validator(parser.parsers, parser.model, StrV(argv[1]))
       IN  outcome' = [kind |-> "cast", raised |-> r.raised, val |-> r.val]
    /\ UNCHANGED <<parser, category, argv>>

NextCaster == Validate

SpecCaster == InitCaster /\ [][NextCaster]_vars

\* C11: the mapping caster never raises; for a token that is a literal
\* expression it returns the value of the expression, for any other token
\* the token itself.
C11_MappingCasterNeverRaises ==
    pc = "cast" =>
        /\ ~outcome.raised
        /\ ~literal_eval(argv[1]).raised => outcome.val = literal_eval(argv[1]).val
        /\ literal_eval(argv[1]).raised => outcome.val = StrV(argv[1])

\* what is true of the validator of src/pydantic_args/parsers/mapping.py: it
\* never raises, returns None for the empty token, the value of a literal
\* expression, and else the token, which pydantic then rejects
C11_MappingCasterCurrent ==
    (pc = "cast" /\ parser.parsers = "pydantic_args") =>
        /\ ~outcome.raised
        /\ argv[1] = "" => outcome.val = NoneV
        /\ (argv[1] # "" /\ ~literal_eval(argv[1]).raised) =>
              outcome.val = literal_eval(argv[1]).val
        /\ (argv[1] # "" /\ literal_eval(argv[1]).raised) =>
              /\ outcome.val = StrV(argv[1])
              /\ ~TypeValidate(parser.model, outcome.val).ok

(***************************************************************************)
(* Models with nested models: every field whose type is a model becomes a  *)
(* sub-command with a parser of its own.                                   *)
(***************************************************************************)
NamedField(nm, type, required, default, allow_none) ==
    [name |-> nm, alias |-> nm, type |-> type, required |-> required,
     default |-> default, allow_none |-> allow_none]
\* 'nm: M' or 'nm: Optional[M] = None' for a model class M
CommandField(nm, required, model) ==
    [name |-> nm, alias |-> nm, type |-> "Model", required |-> required,
     default |-> NoneV, allow_none |-> ~required, model |-> model]
\* 'x: bool' or 'x: bool = False'
XField(required) ==
    ("description" :> "an x")
        @@ NamedField("x", "bool", required, IF required THEN NoneV ELSE FalseV, FALSE)

\* class Deep(BaseModel): z: bool = False
Deep == [fields |-> <<NamedField("z", "bool", FALSE, FalseV, FALSE)>>]
\* class Test(BaseModel): deep: Deep, or deep: Optional[Deep] = None
Test(required) == [fields |-> <<CommandField("deep", required, Deep)>>]
\* a flag, then a chain of sub-commands three parsers deep
Chain(r1, r2) ==
    [fields |-> <<XField(FALSE), CommandField("test", r1, Test(r2))>>]
\* two sub-commands with a field between them
Two(r1, r2) ==
    [fields |-> <<CommandField("test", r1, Test(TRUE)), XField(TRUE),
                  CommandField("deep", r2, Deep)>>]
\* no sub-command
Flat(rx) == [fields |-> <<XField(rx)>>]
Schemas ==
    {Chain(r1, r2) : r1 \in BOOLEAN, r2 \in BOOLEAN}
        \cup {Two(r1, r2) : r1 \in BOOLEAN, r2 \in BOOLEAN}
        \cup {Flat(rx) : rx \in BOOLEAN}

\* ArgumentParser.__init__ up to the call of _add_model
NewParser_flags_always(model, version, add_help, exit_on_error) ==
    [model |-> model, version |-> version, add_help |-> add_help,
     exit_on_error |-> exit_on_error,
     action_groups |-> <<"positional arguments", "options", REQUIRED, OPTIONAL, HELP>>,
     actions |->
        <<_add_help_flag>>
            \o <<_add_version_flag>>,
     _subcommands |-> <<>>, commands_required |-> FALSE]
NewParser(model, version, add_help, exit_on_error) ==
    [model |-> model, version |-> version, add_help |-> add_help,
     exit_on_error |-> exit_on_error,
     action_groups |-> <<"positional arguments", "options", REQUIRED, OPTIONAL, HELP>>,
     actions |->
        (IF add_help THEN <<_add_help_flag>> ELSE <<>>)
            \o (IF Truthy(version) THEN <<_add_version_flag>> ELSE <<>>),
     _subcommands |-> <<>>, commands_required |-> FALSE]

\* self._action_groups.insert(0, self._action_groups.pop())
LastToFront_stays(groups) == groups
LastToFront(groups) ==
    <<groups[Len(groups)]>> \o SubSeq(groups, 1, Len(groups) - 1)

\* ArgumentParser._commands: the group of the sub-commands is made on the
\* first call, with required=True, and moved to the front of the groups
_commands_not_required(P) ==
    IF P._subcommands # <<>> THEN P
    ELSE LET groups == Append(P.action_groups, COMMANDS)
         IN  [P EXCEPT !.action_groups = LastToFront(groups),
                !.commands_required = FALSE]
_commands(P) ==
    IF P._subcommands # <<>> THEN P
    ELSE LET groups == Append(P.action_groups, COMMANDS)
         IN  [P EXCEPT !.action_groups = LastToFront(groups),
                !.commands_required = TRUE]

\* parsers.command.parse_field: the keyword exit_on_error of add_parser
command_exit_on_error_set == TRUE
command_exit_on_error == FALSE

\* parsers.command.parse_field: add_parser under the alias of the field, as
\* it is written
command_parse_field_dashes(subcommands, field, child) ==
    Append(subcommands, [name |-> ReplaceUnderscores(field.alias), parser |-> child])
command_parse_field(subcommands, field, child) ==
    Append(subcommands, [name |-> field.alias, parser |-> child])

RECURSIVE _add_model(_, _, _)
\* ArgumentParser._add_model: _add_field on every field, in order; a command
\* field adds a parser of the nested model, made with exit_on_error = False
_add_model_first_command(P, fields, i) ==
    IF i > Len(fields) THEN P
    ELSE LET field == fields[i]
         IN  IF add_field(field) = "Command"
             THEN LET Q == _commands(P)
                      child == _add_model(
                                  NewParser(field.model, NoneV, TRUE, FALSE),
                                  field.model.fields, 1)
                  IN  _add_model(
                        [Q EXCEPT !._subcommands =
                            IF @ = <<>>
                            THEN <<[name |-> field.alias, parser |-> child]>> ELSE @],
                        fields, i + 1)
             ELSE _add_model([P EXCEPT !.actions = Append(@, FieldAction(field))],
                             fields, i + 1)
_add_model(P, fields, i) ==
    IF i > Len(fields) THEN P
    ELSE LET field == fields[i]
         IN  IF add_field(field) = "Command"
             THEN LET Q == _commands(P)
                      child == _add_model(
                                  NewParser(field.model, NoneV, TRUE,
                                            command_exit_on_error),
                                  field.model.fields, 1)
                  IN  _add_model(
                        [Q EXCEPT !._subcommands =
                            command_parse_field(@, field, child)],
                        fields, i + 1)
             ELSE _add_model([P EXCEPT !.actions = Append(@, FieldAction(field))],
                             fields, i + 1)

\* ArgumentParser.__init__ for a model with any number of fields
ArgumentParser(model, version, add_help, exit_on_error) ==
    _add_model(NewParser(model, version, add_help, exit_on_error), model.fields, 1)

(***************************************************************************)
(* argparse with sub-commands: the parser of a command takes every         *)
(* argument string from the name of the command on.                        *)
(***************************************************************************)
\* argparse._UNRECOGNIZED_ARGS_ATTR
UNRECOGNIZED_ARGS_ATTR == "_unrecognized_args"

\* how a parse ends: status as for Parsed, ArgumentError and HelpExit; ran is
\* the names of the sub-parsers that were run, choices the names listed by
\* the message of an error about the name of a command
Result(status, namespace, extras, ran, choices) ==
    [status |-> status, namespace |-> namespace, extras |-> extras,
     ran |-> ran, choices |-> choices]

Names(subcommands) == [i \in 1..Len(subcommands) |-> subcommands[i].name]
Without(namespace, key) == [k \in DOMAIN namespace \ {key} |-> namespace[k]]
Unrecognized(namespace) ==
    IF UNRECOGNIZED_ARGS_ATTR \in DOMAIN namespace
    THEN namespace[UNRECOGNIZED_ARGS_ATTR].v ELSE <<>>

RECURSIVE ParseKnownArgs(_, _)
RECURSIVE ParseLoop(_, _, _, _, _)
RECURSIVE SubParsersAction(_, _, _)

\* actions.SubParsersAction.__call__
SubParsersAction_first_parser(subcommands, namespace, values) ==
    LET r == ParseKnownArgs(subcommands[1].parser, Tail(values))
    IN  Result(r.status,
               (subcommands[1].name :> [k |-> "namespace", v |-> r.namespace])
                    @@ namespace,
               <<>>, <<subcommands[1].name>> \o r.ran, r.choices)
SubParsersAction(subcommands, namespace, values) ==
    LET parser_name == values[1]
        arg_strings == Tail(values)
        hits == {i \in 1..Len(subcommands) : subcommands[i].name = parser_name}
    IN  IF hits = {}
        THEN \* KeyError: unknown parser
             Result("error", namespace, <<>>, <<>>, Names(subcommands))
        ELSE
          LET child == subcommands[CHOOSE i \in hits : TRUE].parser
              r == ParseKnownArgs(child, arg_strings)
              ran == <<parser_name>> \o r.ran
              embedded == (parser_name :> [k |-> "namespace", v |-> r.namespace])
                              @@ namespace
          IN  IF r.status = "error" /\ child.exit_on_error
              THEN \* the parser of the sub-command exits in its own error()
                   Result("exit_error", namespace, <<>>, ran, r.choices)
              ELSE IF r.status # "ok"
              THEN Result(r.status, namespace, <<>>, ran, r.choices)
              ELSE IF r.extras = <<>>
              THEN Result("ok", embedded, <<>>, ran, <<>>)
              ELSE Result("ok",
                      (UNRECOGNIZED_ARGS_ATTR :>
                            [k |-> "unrecognized",
                             v |-> Unrecognized(namespace) \o r.extras])
                          @@ embedded,
                      <<>>, ran, <<>>)

\* ArgumentParser._parse_known_args: the argument strings from position i on
ParseLoop(P, args, i, namespace, extras) ==
    IF i > Len(args)
    THEN \* the sub-commands are a required argument
         IF P._subcommands # <<>> /\ P.commands_required
         THEN Result("error", namespace, extras, <<>>, <<>>)
         ELSE Result("ok", namespace, extras, <<>>, <<>>)
    ELSE
      LET arg == args[i]
          a == ActionFor(P.actions, arg)
          n == RunLength(args, i + 1)
      IN  IF arg \notin OptionLike
          THEN IF P._subcommands = <<>>
               THEN ParseLoop(P, args, i + 1, namespace, Append(extras, arg))
               ELSE IF arg \notin Range(Names(P._subcommands))
               THEN \* _check_value: invalid choice
                    Result("error", namespace, extras, <<>>, Names(P._subcommands))
               ELSE LET c == SubParsersAction(P._subcommands, namespace,
                                              SubSeq(args, i, Len(args)))
                    IN  Result(c.status, c.namespace, extras, c.ran, c.choices)
          ELSE IF a = 0
          THEN ParseLoop(P, args, i + 1, namespace, Append(extras, arg))
          ELSE
            LET act == P.actions[a]
                taken == CASE act.nargs = "0" -> 0
                           [] act.nargs = "None" -> 1
                           [] OTHER -> n
            IN  IF act.kind \in {"help", "version"}
                THEN Result("exit", namespace, extras, <<>>, <<>>)
                ELSE IF act.nargs # "0" /\ n = 0
                THEN Result("error", namespace, extras, <<>>, <<>>)
                ELSE ParseLoop(P, args, i + 1 + taken,
                        (act.dest :> ActionValue(act, arg, args, i, n)) @@ namespace,
                        extras)

\* ArgumentParser.parse_known_args with a new namespace: what the
\* sub-commands left unrecognized is moved from the namespace to the end of
\* the extras
ParseKnownArgs_attr_first(P, args) ==
    LET r == ParseLoop(P, args, 1, InitialNamespace(P.actions), <<>>)
    IN  IF r.status # "ok" THEN r
        ELSE Result("ok", Without(r.namespace, UNRECOGNIZED_ARGS_ATTR),
                    Unrecognized(r.namespace) \o r.extras, r.ran, <<>>)
ParseKnownArgs(P, args) ==
    LET r == ParseLoop(P, args, 1, InitialNamespace(P.actions), <<>>)
    IN  IF r.status # "ok" THEN r
        ELSE Result("ok", Without(r.namespace, UNRECOGNIZED_ARGS_ATTR),
                    r.extras \o Unrecognized(r.namespace), r.ran, <<>>)

(***************************************************************************)
(* pydantic: a model with any number of fields, nested models included.    *)
(***************************************************************************)
ModelV(values) == [k |-> "model", v |-> values]

\* ModelField.validate without the validator of as_validator: the nested
\* model is the class the user wrote, which has no such validators
FieldValidatePlain(field, value) ==
    IF value = NoneV
    THEN IF field.allow_none THEN Valid(NoneV) ELSE Invalid
    ELSE TypeValidate(field, value)

RECURSIVE model_parse_obj(_, _, _)
\* model.parse_obj(arguments): a missing key is an error for a required
\* field and the default otherwise; keys that are no fields are ignored
model_parse_obj(model, arguments, with_validators) ==
    LET fields == model.fields
        one(i) ==
            LET field == fields[i]
            IN  IF field.alias \notin DOMAIN arguments
                THEN IF field.required THEN Invalid ELSE Valid(field.default)
                ELSE LET value == arguments[field.alias]
                     IN  IF add_field(field) = "Command"
                         THEN IF value.k = "dict_of"
                              THEN model_parse_obj(field.model, value.v, FALSE)
                              ELSE Invalid
                         ELSE IF with_validators THEN FieldValidate(field, value)
                         ELSE FieldValidatePlain(field, value)
    IN  IF \E i \in 1..Len(fields) : ~one(i).ok THEN Invalid
        ELSE Valid(ModelV([key \in {fields[i].alias : i \in 1..Len(fields)} |->
                one(CHOOSE i \in 1..Len(fields) : fields[i].alias = key).val]))

\* ArgumentParser.parse_typed_args of a parser with sub-commands
parse_typed_args_keep_extras(P, args) ==
    LET r == ParseKnownArgs(P, args)
        arguments == to_dict(r.namespace)
        m == model_parse_obj(P.model, arguments, TRUE)
    IN  CASE r.status = "exit" -> Exit(EXIT_OK, NoArguments, 0, FALSE)
          [] r.status = "exit_error" -> Exit(EXIT_ERROR, NoArguments, 1, FALSE)
          [] r.status = "error" ->
                IF P.exit_on_error THEN error(P, NoArguments, FALSE)
                ELSE Raise(NoArguments, 0, FALSE)
          [] OTHER ->
                IF m.ok THEN Return(m.val, arguments)
                ELSE error(P, arguments, TRUE)
parse_typed_args_with_commands(P, args) ==
    LET r == ParseKnownArgs(P, args)
        arguments == to_dict(r.namespace)
        m == model_parse_obj(P.model, arguments, TRUE)
    IN  CASE r.status = "exit" -> Exit(EXIT_OK, NoArguments, 0, FALSE)
          [] r.status = "exit_error" -> Exit(EXIT_ERROR, NoArguments, 1, FALSE)
          [] r.status = "error" ->
                IF P.exit_on_error THEN error(P, NoArguments, FALSE)
                ELSE Raise(NoArguments, 0, FALSE)
          [] r.status = "ok" /\ r.extras # <<>> -> error(P, NoArguments, FALSE)
          [] OTHER ->
                IF m.ok THEN Return(m.val, arguments)
                ELSE error(P, arguments, TRUE)

(***************************************************************************)
(* The state machine for models with sub-commands.                         *)
(***************************************************************************)
\* the version strings handed to the constructor
Versions == {NoneV, StrV(""), StrV("CC")}
CommandTokens == {"test", "deep", "--x", "--z", "--a", "--b", "-h", "-v"}
CommandArgvs == UNION {[1..n -> CommandTokens] : n \in 0..MaxArgv}

ConstructWithCommands ==
    /\ pc = "new"
    /\ \E model \in Schemas, version \in Versions, add_help \in BOOLEAN,
          exit_on_error \in BOOLEAN :
          /\ parser' = ArgumentParser(model, version, add_help, exit_on_error)
          /\ category' = [i \in 1..Len(model.fields) |-> add_field(model.fields[i])]
    /\ pc' = "built"
    /\ UNCHANGED <<argv, outcome>>

ParseTypedArgsWithCommands ==
    /\ pc = "built"
    /\ \E args \in CommandArgvs :
          /\ argv' = args
          /\ outcome' = parse_typed_args_with_commands(parser, args)
    /\ pc' = "parsed"
    /\ UNCHANGED <<parser, category>>

NextCommands == ConstructWithCommands \/ ParseTypedArgsWithCommands

SpecCommands == Init /\ [][NextCommands]_vars

(***************************************************************************)
(* Sub-commands.                                                           *)
(***************************************************************************)
\* the call ended in an error: exit with EXIT_ERROR, or an ArgumentError
Failed ==
    \/ outcome.kind = "raise"
    \/ outcome.kind = "exit" /\ outcome.code = EXIT_ERROR
HelpOrVersion(args) == Contains(args, "-h") \/ Contains(args, "-v")
\* the positions of the argument strings that are no options
Positionals(args) == {i \in 1..Len(args) : args[i] \notin OptionLike}
\* no argument string from position i on is a name of these sub-commands
NoneSelected(subcommands, args, i) ==
    \A k \in i..Len(args) : args[k] \notin Range(Names(subcommands))
\* the sub-command the first positional selects, 0 if none
Selected(subcommands, args) ==
    IF Positionals(args) = {} THEN 0
    ELSE LET first == CHOOSE i \in Positionals(args) :
                          \A j \in Positionals(args) : i <= j
             hits == {j \in 1..Len(subcommands) : subcommands[j].name = args[first]}
         IN  IF hits = {} THEN 0 ELSE CHOOSE j \in hits : TRUE
FirstPositional(args) ==
    CHOOSE i \in Positionals(args) : \A j \in Positionals(args) : i <= j

\* C12: when a model has a sub-command field, a command line that names no
\* sub-command never gives a model, and is an error unless it asks for help
\* or the version; the same holds for the model of a selected sub-command.
C12_CommandRequired ==
    (pc = "parsed" /\ parser._subcommands # <<>>) =>
        LET top == parser._subcommands
            j == Selected(top, argv)
            missing ==
                \/ NoneSelected(top, argv, 1)
                \/ /\ j # 0
                   /\ top[j].parser._subcommands # <<>>
                   /\ NoneSelected(top[j].parser._subcommands, argv,
                                   FirstPositional(argv) + 1)
        IN  missing =>
                /\ outcome.kind # "return"
                /\ ~HelpOrVersion(argv) => Failed

\* 'test: Test', 'deep: Deep': the command line 'test' stops short of 'deep'
C12_Witness ==
    /\ pc = "parsed"
    /\ parser.model = Chain(TRUE, TRUE)
    /\ ~parser.exit_on_error
    /\ argv = <<"test">>
    /\ Selected(parser._subcommands, argv) = 1
    /\ outcome.kind = "raise"

\* the sub-command fields of the model of the parser
CommandFields ==
    {parser.model.fields[i] : i \in {j \in 1..Len(parser.model.fields) :
                                        add_field(parser.model.fields[j]) = "Command"}}
\* the command line is made of the flag '--x' only, and has it when the
\* field x is required
OnlyFlags ==
    /\ \A i \in 1..Len(argv) : argv[i] = "--x"
    /\ (\E i \in 1..Len(parser.model.fields) :
            parser.model.fields[i].alias = "x" /\ parser.model.fields[i].required)
          => Contains(argv, "--x")

\* C13: when the sub-command fields are declared optional, a command line
\* without a sub-command is parsed and the model has None for these fields.
C13_OptionalCommandOmitted ==
    (pc = "parsed" /\ CommandFields # {} /\ OnlyFlags
            /\ \A f \in CommandFields : ~f.required) =>
        /\ outcome.kind = "return"
        /\ \A f \in CommandFields : outcome.model.v[f.alias] = NoneV

\* what is true of an optional sub-command field: it is None in the model
\* when the command line selects another sub-command of the same parser
C13_OptionalCommandBesideAnother ==
    (pc = "parsed" /\ outcome.kind = "return") =>
        \A f \in CommandFields :
            (~f.required /\ f.alias \notin DOMAIN outcome.arguments) =>
                /\ outcome.model.v[f.alias] = NoneV
                /\ \E g \in CommandFields : g.alias \in DOMAIN outcome.arguments

(***************************************************************************)
(* The action of the sub-commands on its own, called with a namespace and  *)
(* the argument strings from the name of the command on.                   *)
(***************************************************************************)
\* the argument strings handed to one call of the action
MaxValues == 4

ActionSchemas == {Chain(TRUE, r2) : r2 \in BOOLEAN} \cup {Two(TRUE, TRUE)}
ActionTokens == {"test", "deep", "fake", "--a", "--b", "--z", "-h"}
ActionValues == UNION {[1..n -> ActionTokens] : n \in 1..MaxValues}
\* the namespace of the parent before the call
ParentNamespaces == {EmptyNamespace, ("x" :> TrueV)}

InitAction ==
    /\ pc = "action"
    /\ parser \in {ArgumentParser(model, NoneV, TRUE, FALSE) : model \in ActionSchemas}
    /\ category = <<>>
    /\ argv \in ActionValues
    /\ outcome \in {[kind |-> "namespace", namespace |-> namespace] :
                        namespace \in ParentNamespaces}

Call ==
    /\ pc = "action"
    /\ pc' = "called"
    /\ LET r == SubParsersAction(parser._subcommands, outcome.namespace, argv)
       IN  outcome' = [kind |-> "called", before |-> outcome.namespace,
                       status |-> r.status, namespace |-> r.namespace,
                       ran |-> r.ran, choices |-> r.choices]
    /\ UNCHANGED <<parser, category, argv>>

NextAction == Call

SpecAction == InitAction /\ [][NextAction]_vars

RECURSIVE Leftover(_, _, _)
\* the argument strings from position i on that no parser of the chain
\* takes, in the order of the command line: an option is looked up in the
\* parser that is current, the name of a sub-command makes its parser the
\* current one
Leftover(P, args, i) ==
    IF i > Len(args) THEN <<>>
    ELSE IF args[i] \in OptionLike
    THEN (IF ActionFor(P.actions, args[i]) # 0 THEN <<>> ELSE <<args[i]>>)
            \o Leftover(P, args, i + 1)
    ELSE LET hits == {j \in 1..Len(P._subcommands) : P._subcommands[j].name = args[i]}
         IN  IF hits = {} THEN <<args[i]>> \o Leftover(P, args, i + 1)
             ELSE Leftover(P._subcommands[CHOOSE j \in hits : TRUE].parser, args, i + 1)

RECURSIVE Clean(_)
\* no namespace nested in this one has a list of unrecognized arguments
Clean(namespace) ==
    \A key \in DOMAIN namespace :
        namespace[key].k = "namespace" =>
            /\ UNRECOGNIZED_ARGS_ATTR \notin DOMAIN namespace[key].v
            /\ Clean(namespace[key].v)

\* C14: a call of the action on <<name, rest...>> that returns has stored
\* the namespace of the child parser for rest under name, and has appended
\* to the unrecognized arguments of the parent namespace exactly the
\* argument strings no parser of the chain takes, in the order of the
\* command line; no nested namespace keeps any.
C14_UnrecognizedBubbleUp ==
    (pc = "called" /\ outcome.status = "ok") =>
        LET i == CHOOSE j \in 1..Len(parser._subcommands) :
                        parser._subcommands[j].name = argv[1]
            child == parser._subcommands[i].parser
        IN  /\ outcome.namespace[argv[1]] =
                  [k |-> "namespace", v |-> ParseKnownArgs(child, Tail(argv)).namespace]
            /\ Unrecognized(outcome.namespace) = Leftover(child, argv, 2)
            /\ Clean(outcome.namespace)
            /\ \A key \in DOMAIN outcome.before :
                  key \in DOMAIN outcome.namespace
                      /\ outcome.namespace[key] = outcome.before[key]

\* 'test --a deep --b': both unknown flags reach the parent, in order
C14_Witness ==
    /\ pc = "called" /\ outcome.status = "ok"
    /\ argv = <<"test", "--a", "deep", "--b">>
    /\ outcome.ran = <<"test", "deep">>
    /\ outcome.namespace["test"].v["deep"] = [k |-> "namespace", v |-> EmptyNamespace]
    /\ Unrecognized(outcome.namespace) = <<"--a", "--b">>

\* C15: a call of the action with a name that is no registered sub-command
\* raises an ArgumentError that lists the registered names; no child parser
\* is run and the parent namespace stays as it was.
C15_UnknownCommand ==
    (pc = "called" /\ argv[1] \notin Range(Names(parser._subcommands))) =>
        /\ outcome.status = "error"
        /\ outcome.choices = Names(parser._subcommands)
        /\ outcome.ran = <<>>
        /\ outcome.namespace = outcome.before

\* 'fake --a' against the sub-commands test and deep
C15_Witness ==
    /\ pc = "called"
    /\ parser.model = Two(TRUE, TRUE)
    /\ argv = <<"fake", "--a">>
    /\ outcome.status = "error"
    /\ outcome.choices = <<"test", "deep">>
    /\ outcome.ran = <<>>

(***************************************************************************)
(* The groups of the arguments and the order of the groups.                *)
(***************************************************************************)
RECURSIVE Parsers(_)
\* a parser and the parsers of its sub-commands, at every depth
Parsers(P) ==
    {P} \cup UNION {Parsers(P._subcommands[i].parser) : i \in 1..Len(P._subcommands)}

\* the help of an argument shows a default
HasDefault(help) ==
    \E i \in 1..(Len(help) - 9) : SubSeq(help, i, i + 9) = "(default: "

\* the arguments a parser has for a field
ArgumentsOf(P, field) == {i \in 1..Len(P.actions) : P.actions[i].dest = field.alias}

\* every argument is in one of the three groups, the help and the version
\* flag in 'help', and a default is shown in the optional group only
GroupsOfArguments(P) ==
    \A i \in 1..Len(P.actions) :
        LET action == P.actions[i]
        IN  /\ action.group \in {REQUIRED, OPTIONAL, HELP}
            /\ action.kind \in {"help", "version"} <=> action.group = HELP
            /\ HasDefault(action.help) => action.group = OPTIONAL

\* the one argument of a field is in the required group iff the field is
\* required, and in the optional group otherwise
GroupOfField(P, field) ==
    /\ Cardinality(ArgumentsOf(P, field)) = 1
    /\ \A i \in ArgumentsOf(P, field) :
          P.actions[i].group = IF field.required THEN REQUIRED ELSE OPTIONAL

\* C16 as stated: after construction every argument of every parser is in
\* exactly one of the groups required, optional and help; the argument of a
\* field, whatever the field, is in the required group iff the field is
\* required and in the optional group otherwise; the help and version flags
\* are in the help group; '(default: ...)' is shown in the optional group
\* only.
C16_EveryFieldGrouped ==
    pc # "new" =>
        \A P \in Parsers(parser) :
            /\ GroupsOfArguments(P)
            /\ \A i \in 1..Len(P.model.fields) : GroupOfField(P, P.model.fields[i])

\* C16: the same for the fields that are no sub-commands; a sub-command
\* field, required or not, has no argument in the three groups: its name is
\* a choice of the one argument of the group 'commands'.
C16_ArgumentsGrouped ==
    pc # "new" =>
        \A P \in Parsers(parser) :
            /\ GroupsOfArguments(P)
            /\ \A i \in 1..Len(P.model.fields) :
                  LET field == P.model.fields[i]
                  IN  IF add_field(field) = "Command"
                      THEN /\ ArgumentsOf(P, field) = {}
                           /\ field.alias \in Range(Names(P._subcommands))
                           /\ P.action_groups[1] = COMMANDS
                      ELSE GroupOfField(P, field)

\* a required flag, both help flags and two sub-commands; the optional flag
\* of the nested parser shows its default
C16_Witness ==
    /\ pc = "built"
    /\ parser.model = Two(TRUE, FALSE)
    /\ Len(parser.actions) = 3
    /\ parser.actions[3].group = REQUIRED
    /\ parser.actions[3].help = "an x"
    /\ parser.actions[2].kind = "version"
    /\ parser._subcommands[2].parser.actions[2].help = "(default: False)"
    /\ parser._subcommands[2].parser.actions[2].group = OPTIONAL

(***************************************************************************)
(* The help and the version flag.                                          *)
(***************************************************************************)
Registered(P, flag) == ActionFor(P.actions, flag) # 0

\* position i of the argument strings is a help or version flag of the
\* parser, and only options come before it: the parser gets to the flag
ReachesFlag(P, args, i) ==
    /\ Registered(P, args[i])
    /\ P.actions[ActionFor(P.actions, args[i])].kind \in {"help", "version"}
    /\ \A j \in 1..(i - 1) : args[j] \in OptionLike

ExitsOk == outcome.kind = "exit" /\ outcome.code = EXIT_OK

\* C17 as stated: every constructed parser has -h/--help, has -v/--version
\* iff a version string was supplied, and a command line with one of the two
\* flags in it exits with code 0.
C17_HelpAndVersionAlways ==
    /\ pc # "new" =>
          /\ Registered(parser, "-h")
          /\ Registered(parser, "-v") <=> parser.version # NoneV
    /\ (pc = "parsed" /\ HelpOrVersion(argv)) => ExitsOk

\* C17: a parser has -h/--help iff it was made with add_help, and
\* -v/--version iff it was made with a version string that is not empty; the
\* parser of a sub-command has the first and not the second.  A command line
\* in which a help or version flag of the parser comes before every
\* positional argument exits with code 0 and returns no model, and only a
\* command line with such a flag in it exits with code 0.
C17_HelpAndVersion ==
    /\ pc # "new" =>
          /\ \A P \in Parsers(parser) :
                /\ Registered(P, "-h") <=> P.add_help
                /\ Registered(P, "-v") <=> Truthy(P.version)
          /\ \A P \in Parsers(parser) \ {parser} :
                Registered(P, "-h") /\ ~Registered(P, "-v")
    /\ pc = "parsed" =>
          /\ (\E i \in 1..Len(argv) : ReachesFlag(parser, argv, i)) => ExitsOk
          /\ ExitsOk => HelpOrVersion(argv)

\* the version is asked for after an option the parser does not know
C17_Witness ==
    /\ pc = "parsed"
    /\ parser.version = StrV("CC")
    /\ ~parser.add_help
    /\ argv = <<"--a", "-v">>
    /\ ExitsOk

\* the groups a help message has a section for: those with an argument or a
\* sub-command in them
Shown(P) ==
    SelectSeq(P.action_groups,
              LAMBDA group :
                  \/ group = COMMANDS /\ P._subcommands # <<>>
                  \/ \E i \in 1..Len(P.actions) : P.actions[i].group = group)

\* C18: in a parser with a sub-command field the group 'commands' is the
\* first of the groups, and 'commands', 'required arguments', 'optional
\* arguments', 'help' come in this order, wherever the sub-command fields
\* stand among the fields; the two groups argparse makes itself stay empty.
C18_CommandsFirst ==
    pc # "new" =>
        \A P \in Parsers(parser) :
            IF P._subcommands # <<>>
            THEN /\ P.action_groups[1] = COMMANDS
                 /\ SelectSeq(P.action_groups,
                              LAMBDA group : group \in {COMMANDS, REQUIRED, OPTIONAL, HELP})
                        = <<COMMANDS, REQUIRED, OPTIONAL, HELP>>
                 /\ \A i \in 1..Len(Shown(P)) :
                        Shown(P)[i] \in {COMMANDS, REQUIRED, OPTIONAL, HELP}
            ELSE ~Contains(P.action_groups, COMMANDS)

\* sub-command fields first and last, a required flag between them, and
\* both the help and the version flag
C18_Witness ==
    /\ pc = "built"
    /\ parser.model = Two(TRUE, TRUE)
    /\ category = <<"Command", "Boolean", "Command">>
    /\ Shown(parser) = <<COMMANDS, REQUIRED, HELP>>
    /\ Shown(parser._subcommands[2].parser) = <<OPTIONAL, HELP>>

(***************************************************************************)
(* One parser used for several calls of parse_typed_args in a row.         *)
(***************************************************************************)
\* the argument strings of one call, and the calls made on one parser
MaxReuse == 1
MaxCalls == 2

ReuseSchemas == {Test(TRUE), Chain(TRUE, TRUE), Two(TRUE, FALSE), Flat(FALSE)}
ReuseTokens == {"test", "deep", "--x", "-h"}
ReuseArgvs == UNION {[1..n -> ReuseTokens] : n \in 0..MaxReuse}

ConstructForReuse ==
    /\ pc = "new"
    /\ \E model \in ReuseSchemas, exit_on_error \in BOOLEAN :
          /\ parser' = ArgumentParser(model, NoneV, TRUE, exit_on_error)
          /\ category' = [i \in 1..Len(model.fields) |-> add_field(model.fields[i])]
    /\ pc' = "built"
    /\ outcome' = [kind |-> "calls", calls |-> <<>>]
    /\ UNCHANGED argv

\* the program has ended: the last call has left through SystemExit
Ended(calls) == calls # <<>> /\ calls[Len(calls)].result.kind = "exit"

\* one more call of parse_typed_args on the parser: nothing of the parser
\* is assigned to, the namespace of the call is a new one
ParseTypedArgsAgain_forgets ==
    /\ pc \in {"built", "parsed"}
    /\ Len(outcome.calls) < MaxCalls
    /\ ~Ended(outcome.calls)
    /\ \E args \in ReuseArgvs :
          /\ argv' = args
          /\ outcome' = [outcome EXCEPT !.calls =
                Append(@, [argv |-> args,
                           result |-> parse_typed_args_with_commands(parser, args)])]
    /\ pc' = "parsed"
    /\ parser' = [parser EXCEPT !._subcommands = <<>>]
    /\ UNCHANGED category
ParseTypedArgsAgain ==
    /\ pc \in {"built", "parsed"}
    /\ Len(outcome.calls) < MaxCalls
    /\ ~Ended(outcome.calls)
    /\ \E args \in ReuseArgvs :
          /\ argv' = args
          /\ outcome' = [outcome EXCEPT !.calls =
                Append(@, [argv |-> args,
                           result |-> parse_typed_args_with_commands(parser, args)])]
    /\ pc' = "parsed"
    /\ UNCHANGED <<parser, category>>

NextReuse == ConstructForReuse \/ ParseTypedArgsAgain

SpecReuse == Init /\ [][NextReuse]_vars

\* the parser as it is right after construction
Fresh(P) == ArgumentParser(P.model, P.version, P.add_help, P.exit_on_error)

MaxAliases == 2

FieldNames == {"test", "test_two", "a_b_c", "_x_"}
CustomAliases == {"-t", "-te", "-nt", "-n_t"}
NamedFields ==
    {("aliases" :> aliases) @@ NamedField(nm, "str", TRUE, NoneV, FALSE) :
        nm \in FieldNames,
        aliases \in UNION {[1..n -> CustomAliases] : n \in 0..MaxAliases}}

InitNames ==
    /\ pc = "field"
    /\ parser \in {[model |-> field] : field \in NamedFields}
    /\ category = <<>>
    /\ argv = <<>>
    /\ outcome = NoOutcome

CallNames ==
    /\ pc = "field"
    /\ pc' = "named"
    /\ \E invert \in BOOLEAN :
          outcome' = [kind |-> "names", invert |-> invert,
                      flags |-> names(parser.model, invert)]
    /\ UNCHANGED <<parser, category, argv>>

NextNames == CallNames

SpecNames == InitNames /\ [][NextNames]_vars

\* flag is prefix, then alias with '-' where alias has '_' and the
\* characters of alias elsewhere
LongFlag(flag, prefix, alias) ==
    /\ Len(flag) = Len(prefix) + Len(alias)
    /\ SubSeq(flag, 1, Len(prefix)) = prefix
    /\ \A k \in 1..Len(alias) :
          SubSeq(flag, Len(prefix) + k, Len(prefix) + k) =
              IF SubSeq(alias, k, k) = "_" THEN "-" ELSE SubSeq(alias, k, k)

\* C20: the flag names of a field are its custom aliases, unchanged and in
\* their order, then one long flag: '--', or '--no-' when inverted, and the
\* alias of the field with '-' for every '_'; the custom aliases are the
\* same whether inverted or not.
C20_FlagNames ==
    pc = "named" =>
        LET field == parser.model
            n == Len(field.aliases)
        IN  /\ Len(outcome.flags) = n + 1
            /\ SubSeq(outcome.flags, 1, n) = field.aliases
            /\ LongFlag(outcome.flags[n + 1],
                        IF outcome.invert THEN "--no-" ELSE "--", field.alias)
            /\ SubSeq(names(field, ~outcome.invert), 1, n) = field.aliases

\* two aliases, one with '_' in it, before the inverted long flag
C20_Witness ==
    /\ pc = "named"
    /\ parser.model.alias = "test_two"
    /\ outcome.invert
    /\ outcome.flags = <<"-n_t", "-t", "--no-test-two">>

(***************************************************************************)
(* The help text of a field.                                               *)
(***************************************************************************)
\* the descriptions a field is declared with; "" stands for None
Descriptions == {"", "A", "an x"}

InitDescribe ==
    /\ pc = "field"
    /\ parser \in {[model |-> ("description" :> text) @@ field] :
                        field \in AllFields, text \in Descriptions}
    /\ category = <<>>
    /\ argv = <<>>
    /\ outcome = NoOutcome

Describe ==
    /\ pc = "field"
    /\ pc' = "described"
    /\ outcome' = [kind |-> "description", help |-> description(parser.model)]
    /\ UNCHANGED <<parser, category, argv>>

NextDescribe == Describe

SpecDescribe == InitDescribe /\ [][NextDescribe]_vars

\* C21: the help text of a field that is not required is its description,
\* a space, and '(default: <value>)', the suffix alone when there is no
\* description, also when the default is None; the help text of a required
\* field is its description without a suffix, the empty string when there
\* is none.
C21_DescriptionSuffix ==
    pc = "described" =>
        LET field == parser.model
            suffix == "(default: " \o PyStr(field.default) \o ")"
        IN  /\ ~field.required /\ field.description # ""
                => outcome.help = field.description \o " " \o suffix
            /\ ~field.required /\ field.description = ""
                => outcome.help = suffix
            /\ field.required
                => outcome.help = field.description /\ ~HasDefault(outcome.help)
            /\ HasDefault(outcome.help) <=> ~field.required

\* a field described as 'A' whose default is None
C21_Witness ==
    /\ pc = "described"
    /\ parser.model.type = "int"
    /\ ~parser.model.required
    /\ parser.model.default = NoneV
    /\ outcome.help = "A (default: None)"

C22_ArgparseErrorRaisedDirectly ==
    /\ pc = "parsed"
    /\ ~parser.exit_on_error
    /\ parse_known_args(parser, argv).status = "error"
    /\ outcome.kind = "raise"
    /\ outcome.errors = 0 /\ outcome.usage = 0

(***************************************************************************)
(* utils.namespaces.to_dict on nested namespaces.                          *)
(***************************************************************************)
\* the depth to which the namespaces are nested
MaxDepth == 3

\* Namespace(), Namespace(a="1"), Namespace(a="1", b=2)
FlatNamespaces ==
    {EmptyNamespace, ("a" :> StrV("1")), ("a" :> StrV("1")) @@ ("b" :> IntV("2"))}

RECURSIVE NestedNamespaces(_)
\* the namespaces with a namespace under 'c', to the depth d
NestedNamespaces(d) ==
    IF d = 0 THEN FlatNamespaces
    ELSE NestedNamespaces(d - 1) \cup
         {flat @@ ("c" :> [k |-> "namespace", v |-> inner]) :
             flat \in FlatNamespaces, inner \in NestedNamespaces(d - 1)}

InitToDict ==
    /\ pc = "namespace"
    /\ parser = NoParser
    /\ category = <<>>
    /\ argv = <<>>
    /\ outcome \in {[kind |-> "namespace", namespace |-> namespace] :
                        namespace \in NestedNamespaces(MaxDepth)}

\* dictionary = vars(namespace): the dictionary returned is the one of the
\* namespace itself, whose nested namespaces are replaced in place
ToDict ==
    /\ pc = "namespace"
    /\ pc' = "dict"
    /\ outcome' = [kind |-> "dict", before |-> outcome.namespace,
                   vars |-> to_dict(outcome.namespace),
                   result |-> to_dict(outcome.namespace)]
    /\ UNCHANGED <<parser, category, argv>>

NextToDict == ToDict

SpecToDict == InitToDict /\ [][NextToDict]_vars

RECURSIVE Converted(_, _)
\* dictionary has the keys of namespace, a dictionary of the same kind where
\* namespace has a namespace, and the value of namespace elsewhere
Converted(namespace, dictionary) ==
    /\ DOMAIN dictionary = DOMAIN namespace
    /\ \A key \in DOMAIN namespace :
          IF namespace[key].k = "namespace"
          THEN /\ dictionary[key].k = "dict_of"
               /\ Converted(namespace[key].v, dictionary[key].v)
          ELSE dictionary[key] = namespace[key]

RECURSIVE Depth(_)
Depth(namespace) ==
    IF \A key \in DOMAIN namespace : namespace[key].k # "namespace" THEN 0
    ELSE 1 + Depth(namespace["c"].v)

\* C23: to_dict returns a dictionary with the keys of the namespace in
\* which, at every depth, a namespace is replaced by its dictionary and
\* every other value is as it was; nothing but the namespace handed in, and
\* the dictionary that is its own, has changed.
C23_ToDictRecursive ==
    pc = "dict" =>
        /\ Converted(outcome.before, outcome.result)
        /\ outcome.vars = outcome.result
        /\ parser = NoParser /\ category = <<>> /\ argv = <<>>

\* namespaces three deep, as in Namespace(a, b, c=Namespace(a, c=Namespace(..)))
C23_Witness ==
    /\ pc = "dict"
    /\ Depth(outcome.before) = 3
    /\ DOMAIN outcome.before["c"].v["c"].v["c"].v = {"a", "b"}
    /\ outcome.result["c"].v["c"].v["c"].k = "dict_of"
    /\ DOMAIN outcome.result["c"].v["c"].v["c"].v = {"a", "b"}
    /\ outcome.result["c"].v["c"].v["c"].v["b"] = IntV("2")
    /\ DOMAIN outcome.result = {"a", "c"}
    /\ outcome.result["a"] = StrV("1")

(***************************************************************************)
(* The validators of the fields applied to values that are no strings.     *)
(***************************************************************************)
\* values that are no strings, the falsy ones among them
NonStrings ==
    {NoneV, FalseV, TrueV, IntV("0"), IntV("2"), ListV(<<>>), ListV(<<StrV("d")>>),
     DictV(<<>>), DictV(<< <<StrV("b"), IntV("3")>> >>)}

InitPassThrough ==
    /\ pc = "value"
    /\ parser \in {[model |-> field, parsers |-> package] :
                        field \in AllFields, package \in Packages}
    /\ category = <<_add_field(parser.parsers, parser.model)>>
    /\ argv = <<>>
    /\ outcome \in {[kind |-> "value", value |-> value] : value \in NonStrings}

\* the validator parse_field has returned for the field, called on the value
PassThrough ==
    /\ pc = "value"
    /\ pc' = "cast"
    /\ LET r == IF category[1] = "Mapping"
                THEN mapping_validator(parser.parsers, parser.model, outcome.value)
                ELSE Returned(as_validator(category[1], parser.model, outcome.value))
       IN  outcome' = [kind |-> "cast", value |-> outcome.value,
                       raised |-> r.raised, val |-> r.val]
    /\ UNCHANGED <<parser, category, argv>>

NextPassThrough == PassThrough

SpecPassThrough == InitPassThrough /\ [][NextPassThrough]_vars

\* C24: the caster of a field, of whatever category, returns a value that
\* is no string as it is, also when the value is falsy.
C24_NonStringUnchanged ==
    pc = "cast" => ~outcome.raised /\ outcome.val = outcome.value

\* what is true of the validators made by as_validator: they return every
\* value that is no string as it is
C24_NonStringUnchangedCurrent ==
    (pc = "cast" /\ (parser.parsers = "pydantic_args" \/ category[1] # "Mapping")) =>
        ~outcome.raised /\ outcome.val = outcome.value

\* the caster of src/pydantic_argparse/parsers/mapping.py on an empty dict
C24_EmptyDictBecomesNone ==
    /\ pc = "cast"
    /\ parser.parsers = "pydantic_argparse"
    /\ category[1] = "Mapping"
    /\ outcome.value = DictV(<<>>)
    /\ outcome.val = NoneV

(***************************************************************************)
(* The empty string as the value of a flag.                                *)
(***************************************************************************)
\* the field's flag takes tokens: one, or one or more for a container
TakesTokens == Built /\ TheFieldAction.kind = "store"
\* the command line is the flag with the empty string as its only token
EmptyToken == pc = "parsed" /\ argv = <<"--test", "">>

\* C25 as stated: for every field whose flag takes tokens, the container
\* fields among them, '--test ""' hands None to the validation of the
\* model: a model is returned exactly when the field allows None, and the
\* model then holds None.
C25_EmptyTokenBecomesNone ==
    (TakesTokens /\ EmptyToken) =>
        /\ outcome.kind = "return" <=> parser.model.allow_none
        /\ outcome.kind = "return" => outcome.model = NoneV

\* C25: the same for the fields whose flag takes one token (mapping,
\* literal, enum, standard); the flag of a container field hands a list
\* holding the empty string to the validation, which keeps it where the
\* elements are strings.
C25_SingleEmptyTokenBecomesNone ==
    (TakesTokens /\ EmptyToken) =>
        IF TheFieldAction.nargs = "None"
        THEN /\ category[1] \in {"Mapping", "Literal", "Enum", "Standard"}
             /\ outcome.validated
             /\ outcome.kind = "return" <=> parser.model.allow_none
             /\ outcome.kind = "return" => outcome.model = NoneV
        ELSE /\ category[1] = "Container"
             /\ outcome.arguments = [key \in {"test"} |-> ListV(<<StrV("")>>)]
             /\ parser.model.type = "list" =>
                    outcome.kind = "return" /\ outcome.model = ListV(<<StrV("")>>)

\* a required str given '' gives no model; the field is not nullable
C25_Witness ==
    /\ TakesTokens /\ EmptyToken
    /\ parser.model.type = "str"
    /\ parser.model.required /\ ~parser.model.allow_none
    /\ outcome.validated
    /\ outcome.kind # "return"

\* Optional[int] = 2 given '' gives a model holding None
C25_NullableGivesNone ==
    /\ TakesTokens /\ EmptyToken
    /\ parser.model.type = "int"
    /\ parser.model.default = IntV("2") /\ parser.model.allow_none
    /\ outcome.kind = "return" /\ outcome.model = NoneV

(***************************************************************************)
(* add_argument called on a parser after its construction.                 *)
(***************************************************************************)
\* the calls of add_argument made after the construction
MaxLate == 2

LateFlags == {"--late", "--x", "-h"}
\* the 'required' keyword of the call: True, False, or not given
LateRequired == {"True", "False", "missing"}

\* ArgumentParser.add_argument(flag, dest=..., required=...) on a built
\* parser: kwargs.pop('required') raises KeyError when the keyword is not
\* given; argparse refuses an option string that is taken; otherwise the
\* argument joins the required or the optional group
AddArgumentLater ==
    /\ pc \in {"built", "late"}
    /\ outcome.kind = "calls"
    /\ Len(outcome.calls) < MaxLate
    /\ \E flag \in LateFlags, required \in LateRequired :
          LET field == NamedField("late", "str", required = "True", NoneV, FALSE)
              raised == CASE required = "missing" -> "KeyError"
                          [] Registered(parser, flag) -> "ArgumentError"
                          [] OTHER -> "no"
          IN  /\ parser' = IF raised # "no" THEN parser
                           ELSE [parser EXCEPT !.actions =
                                    Append(@, add_argument(flag, "store", "None", NoneV,
                                                           field, required = "True"))]
              /\ outcome' = [outcome EXCEPT !.calls =
                                Append(@, [flag |-> flag, required |-> required,
                                           raised |-> raised])]
    /\ pc' = "late"
    /\ UNCHANGED <<category, argv>>

NextLate == ConstructForReuse \/ AddArgumentLater

SpecLate == Init /\ [][NextLate]_vars

\* C26: once the constructor has returned, the arguments of the parser are
\* those the constructor registered: a later call of add_argument does not
\* change them.
C26_SealedAfterConstruction ==
    pc \in {"built", "late"} => parser.actions = Fresh(parser).actions

\* what the code does: a later call with a free option string and the
\* 'required' keyword registers one more argument, in the group the keyword
\* names; a call that raises leaves the parser as it is
C26_LateCallRegisters ==
    pc = "late" =>
        LET added == SelectSeq(outcome.calls, LAMBDA call : call.raised = "no")
            before == Len(Fresh(parser).actions)
        IN  /\ Len(parser.actions) = before + Len(added)
            /\ SubSeq(parser.actions, 1, before) = Fresh(parser).actions
            /\ \A i \in 1..Len(added) :
                  /\ parser.actions[before + i].option_strings = <<added[i].flag>>
                  /\ parser.actions[before + i].group =
                        IF added[i].required = "True" THEN REQUIRED ELSE OPTIONAL

\* '--late' registered after construction, '--x' refused as taken
C26_LateArgument ==
    /\ pc = "late"
    /\ parser.model = Flat(FALSE)
    /\ Len(outcome.calls) = 2
    /\ outcome.calls[1] = [flag |-> "--late", required |-> "False", raised |-> "no"]
    /\ outcome.calls[2] = [flag |-> "--x", required |-> "True", raised |-> "ArgumentError"]
    /\ Registered(parser, "--late")

(***************************************************************************)
(* The group of the sub-commands and the parsers in it.                    *)
(***************************************************************************)
\* the positions of the Command fields among the first n fields
CommandsAmong(fields, n) == {i \in 1..n : add_field(fields[i]) = "Command"}

\* the parser while its constructor has processed the first n fields
Building(P, n) ==
    _add_model(NewParser(P.model, P.version, P.add_help, P.exit_on_error),
               SubSeq(P.model.fields, 1, n), 1)

\* how many of the groups are the group of the sub-commands
CommandGroups(P) == Cardinality({i \in 1..Len(P.action_groups) : P.action_groups[i] = COMMANDS})

\* C27: while the fields are processed a parser has no group of
\* sub-commands before its first Command field and exactly one from then
\* on, however many Command fields there are; every Command field has
\* exactly one parser in the group, under the field's name, in the order of
\* the fields, and this parser is the one built from the nested model.
C27_OneCommandsGroup ==
    pc = "built" =>
        \A P \in Parsers(parser) :
            \A n \in 0..Len(P.model.fields) :
                LET B == Building(P, n)
                    commands == CommandsAmong(P.model.fields, n)
                IN  /\ CommandGroups(B) = IF commands = {} THEN 0 ELSE 1
                    /\ Len(B._subcommands) = Cardinality(commands)
                    /\ \A i \in commands :
                          LET k == Cardinality(CommandsAmong(P.model.fields, i))
                              field == P.model.fields[i]
                          IN  /\ B._subcommands[k].name = field.alias
                              /\ B._subcommands[k].parser =
                                    ArgumentParser(field.model, NoneV, TRUE, FALSE)
                    /\ n = Len(P.model.fields) =>
                          B._subcommands = P._subcommands
                              /\ B.action_groups = P.action_groups

\* two Command fields at one level: one group, two parsers, the first with
\* a parser of its own below it
C27_Witness ==
    /\ pc = "built"
    /\ parser.model = Two(TRUE, TRUE)
    /\ CommandGroups(parser) = 1
    /\ CommandGroups(Building(parser, 0)) = 0
    /\ Names(parser._subcommands) = <<"test", "deep">>
    /\ Names(parser._subcommands[1].parser._subcommands) = <<"deep">>

(***************************************************************************)
(* The state machine for the names of sub-commands: one Command field      *)
(* whose alias may hold underscores and may differ from the field's name.  *)
(***************************************************************************)
MaxAliasArgv == 2
CommandAliases == {"test", "sub_cmd", "a_b_c"}
AliasTokens == CommandAliases \cup {"sub-cmd", "a-b-c", "--z"}
AliasArgvs == UNION {[1..n -> AliasTokens] : n \in 0..MaxAliasArgv}
\* 'cmd: Deep = Field(alias=...)' or a field named as its alias
AliasedCommands ==
    UNION {{[CommandField(alias, required, Deep) EXCEPT !.name = nm] :
                nm \in {alias, "cmd"}, required \in BOOLEAN} :
            alias \in CommandAliases}

ConstructAliased ==
    /\ pc = "new"
    /\ \E field \in AliasedCommands, exit_on_error \in BOOLEAN :
          /\ parser' = ArgumentParser([fields |-> <<field>>], NoneV, TRUE,
                                      exit_on_error)
          /\ category' = <<add_field(field)>>
    /\ pc' = "built"
    /\ UNCHANGED <<argv, outcome>>

ParseTypedArgsAliased ==
    /\ pc = "built"
    /\ \E args \in AliasArgvs :
          /\ argv' = args
          /\ outcome' = parse_typed_args_with_commands(parser, args)
    /\ pc' = "parsed"
    /\ UNCHANGED <<parser, category>>

NextAliased == ConstructAliased \/ ParseTypedArgsAliased

SpecAliased == Init /\ [][NextAliased]_vars

\* the one Command field of the parser
TheCommand == parser.model.fields[1]

\* C28: the name a sub-command is registered under is the alias of its
\* Command field with no character rewritten; the namespace of the child
\* parser is stored under that name, so the nested dictionary of the
\* reconstructed input has the alias as its key, the model is constructed
\* from it, and the alias alone on the command line parses; a token that
\* spells the alias with '-' for '_' is no sub-command.
C28_CommandNameIsAlias ==
    pc # "new" =>
        /\ Names(parser._subcommands) = <<TheCommand.alias>>
        /\ pc = "parsed" /\ argv # <<>> =>
              /\ argv = <<TheCommand.alias>> => outcome.kind = "return"
              /\ argv[1] = TheCommand.alias /\ outcome.kind = "return" =>
                    /\ DOMAIN outcome.arguments = {TheCommand.alias}
                    /\ outcome.arguments[TheCommand.alias].k = "dict_of"
                    /\ DOMAIN outcome.model.v = {TheCommand.alias}
                    /\ outcome.model.v[TheCommand.alias].k = "model"
              /\ argv[1] \in AliasTokens \ {TheCommand.alias, "--z"} =>
                    outcome.kind # "return"

\* the sub-command 'sub_cmd' of a field named 'cmd' is selected with a flag
\* of its own and the model is built from the dictionary keyed 'sub_cmd'
C28_Witness ==
    /\ pc = "parsed"
    /\ TheCommand.alias = "sub_cmd"
    /\ TheCommand.name = "cmd"
    /\ argv = <<"sub_cmd", "--z">>
    /\ outcome.kind = "return"
    /\ DOMAIN outcome.arguments = {"sub_cmd"}
    /\ outcome.arguments["sub_cmd"].v["z"] = TrueV

(***************************************************************************)
(* One sub-command for each level.                                         *)
(***************************************************************************)
\* the Command fields of the model that have a dictionary in the arguments
SelectedFields(model, arguments) ==
    {i \in 1..Len(model.fields) :
        /\ add_field(model.fields[i]) = "Command"
        /\ model.fields[i].alias \in DOMAIN arguments
        /\ arguments[model.fields[i].alias].k = "dict_of"}
RECURSIVE OneCommandPerLevel(_, _)
OneCommandPerLevel(model, arguments) ==
    /\ Cardinality(SelectedFields(model, arguments)) <= 1
    /\ \A i \in SelectedFields(model, arguments) :
          OneCommandPerLevel(model.fields[i].model,
                             arguments[model.fields[i].alias].v)
\* the positions after the selecting one that name another sub-command of
\* the top level
SecondNames ==
    IF Selected(parser._subcommands, argv) = 0 THEN {}
    ELSE {k \in 1..Len(argv) :
            /\ k > FirstPositional(argv)
            /\ argv[k] \in Range(Names(parser._subcommands))
            /\ argv[k] # argv[FirstPositional(argv)]}
\* the parser of the sub-command the command line selects
SelectedParser == parser._subcommands[Selected(parser._subcommands, argv)].parser
\* the call ended in ArgumentParser.error before any validation
ReportedUnrecognized ==
    outcome.kind # "return" /\ outcome.errors = 1 /\ ~outcome.validated

\* C29 as stated: the reconstructed input has a nested dictionary for at
\* most one Command field of each level; every argument string that names
\* a second sub-command of the level is reported as unrecognized; and no
\* command line parses to a model with two required Command fields at one
\* level.
C29_SecondNameUnrecognized ==
    (pc = "parsed" /\ parser._subcommands # <<>>) =>
        /\ OneCommandPerLevel(parser.model, outcome.arguments)
        /\ (SecondNames # {} /\ ~HelpOrVersion(argv)) => ReportedUnrecognized
        /\ parser.model = Two(TRUE, TRUE) => outcome.kind # "return"

\* C29: the reconstructed input has a nested dictionary for at most one
\* Command field of each level; an argument string that names a second
\* sub-command of the level is handed to the parser of the selected one, so
\* the call returns only when that parser has a sub-command of this name
\* itself, and it is reported as unrecognized when that parser has no
\* sub-commands; and no command line parses to a model with two required
\* Command fields at one level.
C29_OneCommandPerLevel ==
    (pc = "parsed" /\ parser._subcommands # <<>>) =>
        /\ OneCommandPerLevel(parser.model, outcome.arguments)
        /\ (SecondNames # {} /\ ~HelpOrVersion(argv)) =>
              /\ outcome.kind = "return" =>
                    \A k \in SecondNames :
                        argv[k] \in Range(Names(SelectedParser._subcommands))
              /\ SelectedParser._subcommands = <<>> => ReportedUnrecognized
        /\ parser.model = Two(TRUE, TRUE) => outcome.kind # "return"

\* both sub-commands are required and the command line names both: 'deep'
\* is taken as the sub-command of 'test', the dictionary has 'test' only
\* and the validation fails for the field 'deep'
C29_Witness ==
    /\ pc = "parsed"
    /\ parser.model = Two(TRUE, TRUE)
    /\ argv = <<"--x", "test", "deep">>
    /\ outcome.kind # "return"
    /\ outcome.validated
    /\ SelectedFields(parser.model, outcome.arguments) = {1}
    /\ outcome.arguments["test"].v["deep"].k = "dict_of"

\* 'deep' selected first has no sub-commands: 'test' is unrecognized
C29_SecondUnrecognized ==
    /\ pc = "parsed"
    /\ parser.model = Two(TRUE, FALSE)
    /\ argv = <<"--x", "deep", "test">>
    /\ ReportedUnrecognized

\* the second name is a sub-command of the first: the call returns
C29_SecondNameTaken ==
    /\ pc = "parsed"
    /\ parser.model = Two(TRUE, FALSE)
    /\ argv = <<"--x", "test", "deep">>
    /\ outcome.kind = "return"

(***************************************************************************)
(* Errors inside sub-commands.                                             *)
(***************************************************************************)
\* the parsers of the sub-commands of the parser, at every depth
ChildParsers ==
    UNION {Parsers(parser._subcommands[i].parser) :
                i \in 1..Len(parser._subcommands)}
\* the command line selects a sub-command and the call fails
FailedInCommand ==
    /\ pc = "parsed"
    /\ Selected(parser._subcommands, argv) # 0
    /\ Failed

\* C30: the parser of a sub-command, at every depth, is built with
\* exit_on_error = False; when a command line that selects a sub-command
\* fails, the process exits with code 2 if the top-level parser has
\* exit_on_error set and ArgumentError is raised if it has not.
C30_TopLevelDecides ==
    pc # "new" =>
        /\ \A Q \in ChildParsers : ~Q.exit_on_error
        /\ FailedInCommand =>
              /\ parser.exit_on_error =>
                    outcome.kind = "exit" /\ outcome.code = EXIT_ERROR
              /\ ~parser.exit_on_error => outcome.kind = "raise"

\* 'test' without its required sub-command is an error of the child parser:
\* it is raised by a top-level parser that does not exit on error
C30_Witness ==
    /\ FailedInCommand
    /\ parser.model = Chain(TRUE, TRUE)
    /\ ~parser.exit_on_error
    /\ argv = <<"test">>
    /\ outcome.kind = "raise"
    /\ ~outcome.validated

\* the same error two parsers deep ('--a' is no option of 'deep') with a
\* top-level parser that exits on error: exit code 2
C30_DeepErrorExits ==
    /\ FailedInCommand
    /\ parser.model = Chain(TRUE, TRUE)
    /\ parser.exit_on_error
    /\ argv = <<"test", "deep", "--a">>
    /\ outcome.kind = "exit" /\ outcome.code = EXIT_ERROR

====
